---- MODULE Spec2Model ----
(***************************************************************************)
(* A model of the prompt template store (ai_scientist/prompt_loader.py)    *)
(* and of the pipeline driver (launch_scientist_bfts.py).                  *)
(*                                                                         *)
(* Text (template names, file contents, file names, classifier responses) *)
(* is a sequence of one-character strings, so that suffix extraction,      *)
(* substring tests, lower-casing, stripping and newline translation are    *)
(* computed the way the Python library computes them.                      *)
(***************************************************************************)
EXTENDS Integers, Sequences, FiniteSets, TLC

VARIABLES
    \* the template store
    PROMPT_DIR,     \* prompt_loader.PROMPT_DIR: the singleton template root
    fs,             \* the file system: path -> data of every existing file
    cache,          \* load_prompt's lru_cache: name -> cached text
    op,             \* the store operation that returned last
    ret,            \* what that operation returned (text, or the not-found error)
    seen,           \* per name: what load_prompt returned since the last write
    threads,        \* per thread: the store call it is in, and where in it
    settled,        \* the write that returned last, no write having started since
    \* language detection
    idea,           \* the selected idea record
    code_path,      \* the code artifact path handed to the detector, or None
    classifier,     \* the calls made to get_response_from_llm and the last response
    detected,       \* the triple _detect_target_language returned
    dpc,            \* where the detector is: "start", "returned" or "raised"
    \* review artifact lookup
    listing,        \* os.listdir(idea_dir), in the order the system yields it
    pdf_path,       \* what find_pdf_path_for_review gave
    \* the driver
    args,           \* the command line: skip flags, retry count, writeup type
    outcomes,       \* what perform_writeup returns on its 1st, 2nd, ... call
    run_dir,        \* which results directories exist
    pc,             \* the statement the driver is at
    attempt,        \* the writeup loop's variable
    writeup_success,\* the variable of that name
    exception,      \* the uncaught exception that ended the driver, if any
    trace,          \* the delegated calls and file operations made, in order
    \* prompt preparation
    settings,       \* what bfts_config.yaml holds of the prompt_adapter section
    idea_dir,       \* the run directory: whether it exists, what was written
    repo,           \* the canonical template tree as the repository ships it
    change_text,    \* the rendered rewrite instruction, empty when there is none
    todo,           \* the files parallel_dir.rglob("*.txt") has yet to yield
    requests,       \* the rewriting calls made: file, input sent, response
    \* process cleanup
    children,       \* current_process.children(recursive=True)
    alive,          \* the children psutil.wait_procs reported alive
    table,          \* what psutil.process_iter yields, in order
    pos,            \* the loop position in the list being walked
    sweep,          \* the calls made on processes in the pass under way
    exit_code       \* how the driver process ended

threadVars == <<threads, settled>>
storeVars == <<PROMPT_DIR, fs, cache, op, ret, seen, threadVars>>
detectVars == <<idea, code_path, classifier, detected, dpc>>
pdfVars == <<listing, pdf_path>>
driverVars == <<args, outcomes, run_dir, pc, attempt, writeup_success, exception, trace>>

prepVars == <<settings, idea_dir, repo, change_text, todo, requests>>
reaperVars == <<children, alive, table, pos, sweep, exit_code>>

vars == <<storeVars, detectVars, pdfVars, driverVars, prepVars, reaperVars>>

----------------------------------------------------------------------------
(* Characters and text.                                                    *)

CR == "<CR>"
LF == "<LF>"

\* The longest content written or found in a template file.
MaxLen == 1

\* The characters a template's content is made of.
ContentChars == {"x", CR, LF}

RECURSIVE TextsOfLen(_)
TextsOfLen(n) ==
    IF n = 0 THEN {<<>>}
    ELSE {<<c>> \o t : c \in ContentChars, t \in TextsOfLen(n - 1)}

Contents == UNION {TextsOfLen(n) : n \in 0..MaxLen}

\* str.rfind(ch): the last index of ch in s, 0 when there is none.
rfind(s, ch) ==
    LET hits == {i \in 1..Len(s) : s[i] = ch}
    IN  IF hits = {} THEN 0 ELSE CHOOSE i \in hits : \A j \in hits : j <= i

\* PurePath.name: the final component of a relative path.
path_name(p) == SubSeq(p, rfind(p, "/") + 1, Len(p))

\* PurePath.suffix: from the last dot of the final component, unless that dot
\* is its first or its last character.
suffix(p) ==
    LET nm == path_name(p)
        i  == rfind(nm, ".")
    IN  IF 1 < i /\ i < Len(nm) THEN SubSeq(nm, i, Len(nm)) ELSE <<>>

\* PurePath.with_suffix(".txt").
with_suffix(p, suf) == SubSeq(p, 1, Len(p) - Len(suffix(p))) \o suf

DEFAULT_SUFFIX == <<".", "t", "x", "t">>

\* open(..., "w", newline=None).write: "\n" becomes os.linesep, which is "\n"
\* on the platforms the pipeline runs on; every other character is written
\* as it is.
linesep == <<LF>>

RECURSIVE write_text(_)
write_text(s) ==
    IF s = <<>> THEN <<>>
    ELSE (IF Head(s) = LF THEN linesep ELSE <<Head(s)>>) \o write_text(Tail(s))

\* open(..., "r", newline=None).read: universal newlines, "\r\n" and a lone
\* "\r" are both read as "\n".
RECURSIVE read_text(_)
read_text(d) ==
    IF d = <<>> THEN <<>>
    ELSE IF Head(d) = CR
         THEN IF Len(d) >= 2 /\ d[2] = LF
              THEN <<LF>> \o read_text(Tail(Tail(d)))
              ELSE <<LF>> \o read_text(Tail(d))
         ELSE <<Head(d)>> \o read_text(Tail(d))

\* str.lower() on the letters the model's texts use.
UPPER == <<"A", "B", "C", "D", "E", "F", "G", "H", "I", "J", "K", "L", "M",
           "N", "O", "P", "Q", "R", "S", "T", "U", "V", "W", "X", "Y", "Z">>
LOWER == <<"a", "b", "c", "d", "e", "f", "g", "h", "i", "j", "k", "l", "m",
           "n", "o", "p", "q", "r", "s", "t", "u", "v", "w", "x", "y", "z">>

lower_char(c) ==
    IF \E i \in 1..Len(UPPER) : UPPER[i] = c
    THEN LOWER[CHOOSE i \in 1..Len(UPPER) : UPPER[i] = c]
    ELSE c

lower(s) == [i \in 1..Len(s) |-> lower_char(s[i])]

\* str.strip(): leading and trailing whitespace removed.
Whitespace == {" ", "<TAB>", CR, LF}

strip(s) ==
    LET keep == {i \in 1..Len(s) : s[i] \notin Whitespace}
    IN  IF keep = {} THEN <<>>
        ELSE SubSeq(s, CHOOSE i \in keep : \A j \in keep : i <= j,
                       CHOOSE i \in keep : \A j \in keep : j <= i)

\* sub in s.
contains(s, sub) ==
    \E i \in 1..(Len(s) - Len(sub) + 1) : SubSeq(s, i, i + Len(sub) - 1) = sub

\* s.endswith(sub).
endswith(s, sub) ==
    Len(sub) <= Len(s) /\ SubSeq(s, Len(s) - Len(sub) + 1, Len(s)) = sub

\* s[i:].startswith(sub), i counted from 1.
startswith_at(s, i, sub) ==
    i + Len(sub) - 1 <= Len(s) /\ SubSeq(s, i, i + Len(sub) - 1) = sub

----------------------------------------------------------------------------
(* The template store.                                                     *)

\* The canonical template root and a run's snapshot directory.
CanonicalRoot == "prompt"
SnapshotRoot == "idea_dir/prompt"
Roots == {CanonicalRoot, SnapshotRoot}

\* base_dir=None.
NoDir == "None"

\* Template names: one without an extension and the same with the default
\* extension (two cache keys, one file).
NameA == <<"a">>
NameATxt == <<"a", ".", "t", "x", "t">>
Names == {NameA, NameATxt}

\* _resolve_prompt_path: the default extension is appended only to a name that
\* has none; base_dir=None means the singleton root.
_resolve_prompt_path(name, base_dir) ==
    [root |-> IF base_dir = NoDir THEN PROMPT_DIR ELSE base_dir,
     rel  |-> IF suffix(name) # <<>> THEN name ELSE with_suffix(name, DEFAULT_SUFFIX)]

AllPaths == {_resolve_prompt_path(n, r) : n \in Names, r \in Roots}

\* Path.exists().
exists(path) == path \in DOMAIN fs

\* What a store read returns: the text, or PromptNotFoundError.
Text(t) == [ok |-> TRUE, text |-> t]
PromptNotFoundError == [ok |-> FALSE, text |-> <<>>]
NoResult == [ok |-> FALSE, text |-> <<"-">>]

\* The body of load_prompt and of load_prompt_from_dir: resolve, test, read.
read_prompt(name, base_dir) ==
    LET prompt_path == _resolve_prompt_path(name, base_dir)
    IN  IF ~exists(prompt_path) THEN PromptNotFoundError
        ELSE Text(read_text(fs[prompt_path]))

\* load_prompt(name) as the lru_cache wrapper answers it in this state.
load_prompt(name) ==
    IF name \in DOMAIN cache THEN Text(cache[name]) ELSE read_prompt(name, NoDir)

\* lru_cache stores a returned value under the call's argument, and nothing
\* when the call raises.
cache_after_load(name) ==
    LET res == load_prompt(name)
    IN  IF res.ok
        THEN [n \in DOMAIN cache \cup {name} |-> IF n = name THEN res.text ELSE cache[n]]
        ELSE cache

\* A store whose explicit-root reads share the memo of load_prompt.
cache_shared_with_load_from(name, base_dir) ==
    LET res == read_prompt(name, base_dir)
    IN  IF res.ok
        THEN [n \in DOMAIN cache \cup {name} |-> IF n = name THEN res.text ELSE cache[n]]
        ELSE cache

\* load_prompt_from_dir is not memoised: it leaves the cache as it is.
cache_after_load_from(name, base_dir) == cache

\* A per-key invalidation: only the written name is dropped.
cache_drop_written(name, base_dir) == [n \in DOMAIN cache \ {name} |-> cache[n]]

\* An invalidation skipped when the write names its root explicitly.
cache_kept_for_explicit_root(name, base_dir) ==
    IF base_dir = NoDir THEN [n \in {} |-> <<>>] ELSE cache

\* load_prompt.cache_clear(): every entry goes, whatever was written where.
cache_after_write(name, base_dir) == [n \in {} |-> <<>>]

\* prompt_path.write_text(content): the file exists afterwards, parents made.
fs_after_write(name, content, base_dir) ==
    LET prompt_path == _resolve_prompt_path(name, base_dir)
    IN  [p \in DOMAIN fs \cup {prompt_path} |->
            IF p = prompt_path THEN write_text(content) ELSE fs[p]]

NoneSeen == [n \in Names |-> NoResult]

\* No store operation has returned yet.
NoOp == [kind |-> "none", name |-> <<>>, base_dir |-> NoDir, content |-> <<>>,
         after_write |-> FALSE, written |-> <<>>, before |-> NoResult,
         cached |-> {}]

\* The detector and the artifact lookup before they are used.
NoIdea == [Name |-> "", Programming_Language |-> ""]
NoPath == [given |-> FALSE, path |-> <<>>]
NoCalls == [calls |-> 0, response |-> <<>>]
NoDetection == [label |-> "", fence |-> "", adapt |-> FALSE]
NotLookedUp == [status |-> "not called", name |-> <<>>]

\* The run directory before mkdir, and the driver process while it runs.
NoRunDir == [exists |-> FALSE, files |-> {}]

\* The most threads calling the store at the same time.
MaxThreads == 2

Threads == 1..MaxThreads

\* No write has returned, or one has started since the last one returned.
Unsettled == [ok |-> FALSE, name |-> <<>>, text |-> <<>>, clean |-> FALSE]

\* A thread outside any store call.
Idle == [kind |-> "none", name |-> <<>>, content |-> <<>>, at |-> "idle",
         path |-> [root |-> NoDir, rel |-> <<>>], result |-> NoResult,
         after |-> Unsettled, alone |-> FALSE]

ThreadsIdle ==
    /\ threads = [t \in Threads |-> Idle]
    /\ settled = Unsettled

StoreIdle ==
    /\ PROMPT_DIR = CanonicalRoot
    /\ fs = [q \in {} |-> <<>>]
    /\ cache = [n \in {} |-> <<>>]
    /\ op = NoOp
    /\ ret = NoResult
    /\ seen = NoneSeen
    /\ ThreadsIdle

DetectIdle ==
    /\ idea = NoIdea
    /\ code_path = NoPath
    /\ classifier = NoCalls
    /\ detected = NoDetection
    /\ dpc = "idle"

PdfIdle ==
    /\ listing = <<>>
    /\ pdf_path = NotLookedUp

DriverIdle ==
    /\ args = [skip_writeup |-> FALSE, skip_review |-> FALSE,
               writeup_retries |-> 0, writeup_type |-> "icbinb"]
    /\ outcomes = <<>>
    /\ run_dir = [nested_results |-> FALSE, experiment_results |-> FALSE]
    /\ pc = "idle"
    /\ attempt = 0
    /\ writeup_success = FALSE
    /\ exception = ""
    /\ trace = <<>>

PrepIdle ==
    /\ settings = "present"
    /\ idea_dir = NoRunDir
    /\ repo = [q \in {} |-> <<>>]
    /\ change_text = <<>>
    /\ todo = {}
    /\ requests = <<>>

ReaperIdle ==
    /\ children = <<>>
    /\ alive = {}
    /\ table = <<>>
    /\ pos = 0
    /\ sweep = <<>>
    /\ exit_code = "running"

load_prompt_call(name) ==
    /\ ret' = load_prompt(name)
    /\ cache' = cache_after_load(name)
    /\ op' = [kind |-> "load", name |-> name, base_dir |-> NoDir,
              content |-> <<>>,
              after_write |-> op.kind = "write" /\ op.name = name
                                /\ op.base_dir = NoDir,
              written |-> IF op.kind = "write" THEN op.content ELSE <<>>,
              before |-> IF name \in DOMAIN seen THEN seen[name] ELSE NoResult,
              cached |-> DOMAIN cache]
    /\ seen' = [n \in DOMAIN seen |-> IF n = name THEN load_prompt(name) ELSE seen[n]]
    /\ UNCHANGED <<PROMPT_DIR, fs, threadVars>>

load_prompt_from_dir_call(name, base_dir) ==
    /\ ret' = read_prompt(name, base_dir)
    /\ cache' = cache_after_load_from(name, base_dir)
    /\ op' = [kind |-> "load_from", name |-> name, base_dir |-> base_dir,
              content |-> <<>>, after_write |-> FALSE, written |-> <<>>,
              before |-> NoResult, cached |-> DOMAIN cache]
    /\ UNCHANGED <<PROMPT_DIR, fs, seen, threadVars>>

write_prompt_call(name, content, base_dir) ==
    /\ fs' = fs_after_write(name, content, base_dir)
    /\ cache' = cache_after_write(name, base_dir)
    /\ ret' = NoResult
    /\ op' = [kind |-> "write", name |-> name, base_dir |-> base_dir,
              content |-> content, after_write |-> FALSE, written |-> <<>>,
              before |-> NoResult, cached |-> DOMAIN cache]
    /\ seen' = NoneSeen
    /\ UNCHANGED <<PROMPT_DIR, threadVars>>

LoadPrompt(name) ==
    load_prompt_call(name) /\ UNCHANGED <<detectVars, pdfVars, driverVars, prepVars, reaperVars>>

LoadPromptFromDir(name, base_dir) ==
    load_prompt_from_dir_call(name, base_dir) /\ UNCHANGED <<detectVars, pdfVars, driverVars, prepVars, reaperVars>>

WritePrompt(name, content, base_dir) ==
    write_prompt_call(name, content, base_dir) /\ UNCHANGED <<detectVars, pdfVars, driverVars, prepVars, reaperVars>>

\* After import: the root is the canonical one, its files are whatever the
\* repository ships, the snapshot directory does not exist yet, nothing is
\* cached.
StoreInit ==
    /\ PROMPT_DIR = CanonicalRoot
    /\ \E present \in SUBSET {p \in AllPaths : p.root = CanonicalRoot} :
           fs \in [present -> Contents]
    /\ cache = [n \in {} |-> <<>>]
    /\ op = NoOp
    /\ ret = NoResult
    /\ seen = NoneSeen
    /\ ThreadsIdle
    /\ DetectIdle
    /\ PdfIdle
    /\ DriverIdle
    /\ PrepIdle
    /\ ReaperIdle

StoreNext ==
    \/ \E name \in Names : LoadPrompt(name)
    \/ \E name \in Names, base_dir \in Roots : LoadPromptFromDir(name, base_dir)
    \/ \E name \in Names, content \in Contents, base_dir \in Roots \cup {NoDir} :
           WritePrompt(name, content, base_dir)

StoreSpec == StoreInit /\ [][StoreNext]_vars

----------------------------------------------------------------------------
(* Properties of the template store.                                       *)

\* C1 (as stated): a load_prompt(name) that directly follows
\* write_prompt(name, C) against the singleton root returns exactly C.
C1_RoundTripExact ==
    (op.kind = "load" /\ op.after_write) => ret = Text(op.written)

\* What the code does give: the written text with its line endings read
\* back through universal newlines.
RoundTripUpToNewlines ==
    (op.kind = "load" /\ op.after_write)
        => ret = Text(read_text(write_text(op.written)))

\* C2: when a write_prompt has returned, whatever root it targeted, no name
\* is cached any more, so load_prompt of every name is answered from its file.
C2_WriteClearsWholeCache ==
    op.kind = "write" =>
        /\ DOMAIN cache = {}
        /\ \A name \in Names : load_prompt(name) = read_prompt(name, NoDir)

\* C2 witness: a write to the alternate root has returned while both names
\* were cached.
C2_Witness ==
    /\ op.kind = "write"
    /\ op.base_dir = SnapshotRoot
    /\ op.cached = Names

\* C3: a load_prompt(name) returns what the previous load_prompt(name)
\* returned, when no write_prompt came between the two (other loads may).
C3_IdempotentRead ==
    (op.kind = "load" /\ op.before # NoResult) => ret = op.before

\* C3 witness: a repeated load of a name returned text, with the other name
\* loaded since the last write as well.
C3_Witness ==
    /\ op.kind = "load"
    /\ op.before.ok
    /\ \A name \in Names : seen[name] # NoResult

\* C4 (as stated): a load whose resolved file is absent fails with the
\* not-found error and caches nothing; repeated without a write it fails
\* again; and a load right after write_prompt(name, C) returns C.
C4_NotFoundThenWritten ==
    /\ (op.kind \in {"load", "load_from"}
          /\ ~exists(_resolve_prompt_path(op.name, op.base_dir)))
        => (ret = PromptNotFoundError /\ DOMAIN cache = op.cached)
    /\ (op.kind = "load" /\ op.before = PromptNotFoundError)
        => ret = PromptNotFoundError
    /\ (op.kind = "load" /\ op.after_write) => ret = Text(op.written)

\* The part of C4 about the error itself: an absent file gives the not-found
\* error, caches nothing, and keeps failing until a write.
NotFoundIsNeverCached ==
    /\ (op.kind \in {"load", "load_from"}
          /\ ~exists(_resolve_prompt_path(op.name, op.base_dir)))
        => (ret = PromptNotFoundError /\ DOMAIN cache = op.cached)
    /\ (op.kind = "load" /\ op.before = PromptNotFoundError)
        => ret = PromptNotFoundError
    /\ (op.kind = "load" /\ op.after_write) => ret.ok

\* C5: for a name without an extension, load_prompt(name), load_prompt of the
\* name with the default extension appended, and load_prompt_from_dir(name,
\* the singleton root) all give the same result in every reachable state.
C5_ReadsAgree ==
    \A name \in Names : suffix(name) = <<>> =>
        /\ load_prompt(name) = load_prompt(name \o DEFAULT_SUFFIX)
        /\ load_prompt(name) = read_prompt(name, PROMPT_DIR)

\* C5 witness: after a write and a load, one of the two names is answered
\* from the cache and the other from the file.
C5_Witness ==
    /\ op.kind = "load"
    /\ op.cached = {}
    /\ ret.ok
    /\ NameA \in DOMAIN cache
    /\ NameATxt \notin DOMAIN cache
    /\ exists(_resolve_prompt_path(NameA, CanonicalRoot))


----------------------------------------------------------------------------
(* Language detection.                                                     *)

\* "treesearch/parallel_agent/language_adapter/language_decider", every
\* component abbreviated to its first letter.
LANGUAGE_DECIDER == <<"t", "/", "p", "/", "l", "/", "d">>

\* Ideas: without a language preference, and with either preference.
Ideas ==
    {[Name |-> "idea", Programming_Language |-> pl] : pl \in {"", "python", "c++"}}

\* Code artifact paths: None, the empty string, every mapped extension, mixed
\* case, unmapped extensions, no extension, an extension on a directory only,
\* a dot-file.
CodePath(p) == [given |-> TRUE, path |-> p]

CodePaths ==
    {NoPath,
     CodePath(<<>>),
     CodePath(<<"i", ".", "p", "y">>),
     CodePath(<<"i", ".", "P", "Y">>),
     CodePath(<<"i", ".", "i", "p", "y", "n", "b">>),
     CodePath(<<"i", ".", "c", "p", "p">>),
     CodePath(<<"i", ".", "C", "P", "P">>),
     CodePath(<<"i", ".", "C", "c">>),
     CodePath(<<"i", ".", "c", "x", "x">>),
     CodePath(<<"d", "/", "i", ".", "h", "p", "p">>),
     CodePath(<<"i", ".", "p", "y", ".", "c", "p", "p">>),
     CodePath(<<"i", ".", "h">>),
     CodePath(<<"i", ".", "t", "x", "t">>),
     CodePath(<<"i">>),
     CodePath(<<"d", ".", "c", "p", "p", "/", "i">>),
     CodePath(<<".", "c", "p", "p">>)}

\* Classifier responses.
Responses ==
    {<<"C", "P", "P">>,
     <<" ", "c", "p", "p", " ">>,
     <<"C", "+", "+">>,
     <<"p", "y", "t", "h", "o", "n">>,
     <<"P", "Y">>,
     <<>>,
     <<" ", LF>>,
     <<LF, "C", "p", "p", ".", LF>>,
     <<"c", "+", "+", "1", "7">>,
     <<"n", "o", "t", " ", "c", "p", "p">>,
     <<"c", "p", " ", "p">>,
     <<"c", "+">>,
     <<"c", " ", "+", "+">>}

_EXTENSION_LANGUAGE_HINTS(ext) ==
    CASE ext = <<".", "p", "y">> -> "python"
      [] ext = <<".", "i", "p", "y", "n", "b">> -> "python"
      [] ext = <<".", "c", "p", "p">> -> "c++"
      [] ext = <<".", "c", "c">> -> "c++"
      [] ext = <<".", "c", "x", "x">> -> "c++"
      [] ext = <<".", "h", "p", "p">> -> "c++"
      [] OTHER -> "None"

\* The two triples (language_label, code_fence, adapt_to_cpp).
CppTriple == [label |-> "C++", fence |-> "cpp", adapt |-> TRUE]
PythonTriple == [label |-> "Python", fence |-> "python", adapt |-> FALSE]

\* An extension compared as it is spelled.
extension_as_spelled(path) == suffix(path)

\* ext = Path(code_path).suffix.lower()
code_path_extension(path) == lower(suffix(path))

\* if code_path: ... hint = _EXTENSION_LANGUAGE_HINTS.get(ext)
hint_of(cp) ==
    IF cp.given /\ cp.path # <<>>
    THEN _EXTENSION_LANGUAGE_HINTS(code_path_extension(cp.path))
    ELSE "None"

\* decision = response.strip().lower()
decision_of(response) == lower(strip(response))

\* A strict reading of the response: the token itself and nothing else.
says_cpp_exactly(decision) ==
    decision = <<"c", "p", "p">> \/ decision = <<"c", "+", "+">>

\* "cpp" in decision or "c++" in decision
says_cpp(decision) ==
    contains(decision, <<"c", "p", "p">>) \/ contains(decision, <<"c", "+", "+">>)

\* _detect_target_language returning from the extension hint.
ReturnFromExtension ==
    /\ dpc = "start"
    /\ hint_of(code_path) # "None"
    /\ detected' = IF hint_of(code_path) = "c++" THEN CppTriple ELSE PythonTriple
    /\ dpc' = "returned"
    /\ UNCHANGED <<idea, code_path, classifier, storeVars, pdfVars, driverVars, prepVars, reaperVars>>

\* _infer_language_from_idea: the template is loaded, the classifier is asked
\* and answers `response`, the answer is parsed.
InferLanguageFromIdea(response) ==
    /\ dpc = "start"
    /\ hint_of(code_path) = "None"
    /\ load_prompt(LANGUAGE_DECIDER).ok
    /\ load_prompt_call(LANGUAGE_DECIDER)
    /\ classifier' = [calls |-> classifier.calls + 1, response |-> response]
    /\ detected' = IF says_cpp(decision_of(response)) THEN CppTriple ELSE PythonTriple
    /\ dpc' = "returned"
    /\ UNCHANGED <<idea, code_path, pdfVars, driverVars, prepVars, reaperVars>>

\* _infer_language_from_idea when the decider template is missing:
\* load_prompt raises and no call is made.
InferRaisesNotFound ==
    /\ dpc = "start"
    /\ hint_of(code_path) = "None"
    /\ ~load_prompt(LANGUAGE_DECIDER).ok
    /\ load_prompt_call(LANGUAGE_DECIDER)
    /\ dpc' = "raised"
    /\ UNCHANGED <<idea, code_path, classifier, detected, pdfVars, driverVars, prepVars, reaperVars>>

\* The detector is called with adapter settings present (the driver raises
\* before the call when they are not), nothing cached yet, and the decider
\* template shipped or missing.
DetectInit ==
    /\ PROMPT_DIR = CanonicalRoot
    /\ fs \in {[q \in {} |-> <<>>],
               [q \in {_resolve_prompt_path(LANGUAGE_DECIDER, CanonicalRoot)} |-> <<"x">>]}
    /\ cache = [n \in {} |-> <<>>]
    /\ op = NoOp
    /\ ret = NoResult
    /\ seen = NoneSeen
    /\ ThreadsIdle
    /\ idea \in Ideas
    /\ code_path \in CodePaths
    /\ classifier = NoCalls
    /\ detected = NoDetection
    /\ dpc = "start"
    /\ PdfIdle
    /\ DriverIdle
    /\ PrepIdle
    /\ ReaperIdle

DetectNext ==
    \/ ReturnFromExtension
    \/ \E response \in Responses : InferLanguageFromIdea(response)
    \/ InferRaisesNotFound

DetectSpec == DetectInit /\ [][DetectNext]_vars

----------------------------------------------------------------------------
(* Properties of language detection.                                       *)

CppFamily == {<<".", "c", "p", "p">>, <<".", "c", "c">>, <<".", "c", "x", "x">>,
              <<".", "h", "p", "p">>}
ScriptFamily == {<<".", "p", "y">>, <<".", "i", "p", "y", "n", "b">>}

\* The path's extension, lower-cased, is one of the mapped ones.
HasKnownExtension ==
    /\ code_path.given
    /\ lower(suffix(code_path.path)) \in CppFamily \cup ScriptFamily

\* C6: once the detector has finished on a path whose extension, compared
\* case-insensitively, is mapped, it has returned the mapped language (C++
\* with adapt=true, Python with adapt=false) and asked the classifier nothing,
\* whatever the idea says; the classifier is asked only when no path is given
\* or its extension is unmapped.
C6_ExtensionPrecedence ==
    /\ (dpc # "start" /\ HasKnownExtension) =>
          /\ dpc = "returned"
          /\ classifier.calls = 0
          /\ lower(suffix(code_path.path)) \in CppFamily => detected = CppTriple
          /\ lower(suffix(code_path.path)) \in ScriptFamily => detected = PythonTriple
    /\ classifier.calls > 0 => ~HasKnownExtension

\* C6 witness: an upper-case C++ extension on an idea that asks for Python was
\* detected as C++.
C6_Witness ==
    /\ dpc = "returned"
    /\ code_path = CodePath(<<"i", ".", "C", "P", "P">>)
    /\ idea.Programming_Language = "python"
    /\ detected = CppTriple

\* C7: when the classifier was asked, the result is the C++ triple exactly
\* when the lower-cased response contains "cpp" or "c++", and the Python
\* triple otherwise; no other triple is ever returned.
C7_PermissiveClassification ==
    /\ (dpc = "returned" /\ classifier.calls > 0) =>
          detected =
            IF \/ contains(lower(classifier.response), <<"c", "p", "p">>)
               \/ contains(lower(classifier.response), <<"c", "+", "+">>)
            THEN CppTriple ELSE PythonTriple
    /\ dpc = "returned" => detected \in {CppTriple, PythonTriple}
    /\ detected.adapt => detected.label = "C++"

\* C7 witness: a response with the token inside other text was classified as
\* C++.
C7_Witness ==
    /\ dpc = "returned"
    /\ classifier.calls = 1
    /\ classifier.response = <<"n", "o", "t", " ", "c", "p", "p">>
    /\ detected = CppTriple


----------------------------------------------------------------------------
(* The review artifact lookup.                                             *)

\* The most files a run directory listing holds.
MaxFiles == 3

DIGITS == <<"0", "1", "2", "3", "4", "5", "6", "7", "8", "9">>

is_digit(c) == \E i \in 1..Len(DIGITS) : DIGITS[i] = c

digit_value(c) == (CHOOSE i \in 1..Len(DIGITS) : DIGITS[i] = c) - 1

\* int(text) of a run of digits.
RECURSIVE to_int(_)
to_int(ds) ==
    IF ds = <<>> THEN 0
    ELSE to_int(SubSeq(ds, 1, Len(ds) - 1)) * 10 + digit_value(ds[Len(ds)])

REFLECTION == <<"r", "e", "f", "l", "e", "c", "t", "i", "o", "n">>
FINAL == <<"f", "i", "n", "a", "l">>
DOT_PDF == <<".", "p", "d", "f">>

\* What \d+ takes at position j: the longest run of digits starting there.
digits_at(f, j) ==
    LET ends == {k \in j..Len(f) : \A m \in j..k : is_digit(f[m])}
    IN  IF ends = {} THEN <<>>
        ELSE SubSeq(f, j, CHOOSE k \in ends : \A m \in ends : m <= k)

\* group(1) of reflection[_.]?(\d+) matched at position i, <<>> when it does
\* not match there.
match_at(f, i) ==
    LET j == i + Len(REFLECTION)
    IN  IF ~startswith_at(f, i, REFLECTION) THEN <<>>
        ELSE IF j <= Len(f) /\ f[j] \in {"_", "."} /\ digits_at(f, j + 1) # <<>>
             THEN digits_at(f, j + 1)
             ELSE digits_at(f, j)

\* re.search(r"reflection[_.]?(\d+)", f): group(1) of the leftmost match,
\* <<>> when there is no match.
re_search_reflection(f) ==
    LET hits == {i \in 1..Len(f) : match_at(f, i) # <<>>}
    IN  IF hits = {} THEN <<>>
        ELSE match_at(f, CHOOSE i \in hits : \A j \in hits : i <= j)

is_pdf(f) == endswith(f, DOT_PDF)
is_reflection(f) == contains(f, REFLECTION)
is_final(f) == contains(lower(f), FINAL)
is_numbered(f) == re_search_reflection(f) # <<>>

\* reflection_nums: (int(match.group(1)), f) of every file that matches.
reflection_nums(reflection_pdfs) ==
    LET numbered == SelectSeq(reflection_pdfs, is_numbered)
    IN  [i \in 1..Len(numbered) |->
            [num |-> to_int(re_search_reflection(numbered[i])), f |-> numbered[i]]]

\* Digit texts compared as strings.
RECURSIVE text_less(_, _)
text_less(a, b) ==
    IF b = <<>> THEN FALSE
    ELSE IF a = <<>> THEN TRUE
    ELSE IF Head(a) # Head(b) THEN digit_value(Head(a)) < digit_value(Head(b))
    ELSE text_less(Tail(a), Tail(b))

\* The highest reflection taken by the text of its number.
max_by_text(nums) ==
    LET key(i) == re_search_reflection(nums[i].f)
        best == {i \in 1..Len(nums) : \A j \in 1..Len(nums) : ~text_less(key(i), key(j))}
    IN  nums[CHOOSE i \in best : \A j \in best : i <= j]

\* max(reflection_nums, key=lambda x: x[0]): the first entry with the highest
\* number.
max_by_number(nums) ==
    LET best == {i \in 1..Len(nums) : \A j \in 1..Len(nums) : nums[j].num <= nums[i].num}
    IN  nums[CHOOSE i \in best : \A j \in best : i <= j]

FoundPdf(f) == [status |-> "path", name |-> f]
UnboundLocalError == [status |-> "UnboundLocalError", name |-> <<>>]

\* find_pdf_path_for_review over the directory listing.
find_pdf_path_for_review(files) ==
    LET pdf_files == SelectSeq(files, is_pdf)
        reflection_pdfs == SelectSeq(pdf_files, is_reflection)
        final_pdfs == SelectSeq(reflection_pdfs, is_final)
        nums == reflection_nums(reflection_pdfs)
    IN  IF reflection_pdfs = <<>> THEN UnboundLocalError
        ELSE IF final_pdfs # <<>> THEN FoundPdf(final_pdfs[1])
        ELSE IF nums # <<>> THEN FoundPdf(max_by_number(nums).f)
        ELSE FoundPdf(reflection_pdfs[1])

\* File names a run directory may hold.
FileNames ==
    {REFLECTION \o <<"_", "1">> \o DOT_PDF,
     REFLECTION \o <<"_", "2">> \o DOT_PDF,
     REFLECTION \o <<"_", "1", "0">> \o DOT_PDF,
     REFLECTION \o <<"0", "2">> \o DOT_PDF,
     REFLECTION \o <<".", "3">> \o DOT_PDF,
     FINAL \o <<"_">> \o REFLECTION \o DOT_PDF,
     REFLECTION \o <<"_", "F", "i", "n", "a", "l">> \o DOT_PDF,
     REFLECTION \o DOT_PDF,
     REFLECTION \o <<"_", "v", "9">> \o DOT_PDF,
     <<"R", "e", "f", "l", "e", "c", "t", "i", "o", "n", "_", "9">> \o DOT_PDF,
     REFLECTION \o <<"_", "9", ".", "t", "e", "x">>,
     FINAL \o DOT_PDF,
     <<"p">> \o DOT_PDF}

\* Listings: up to MaxFiles distinct names in any order.
Listings ==
    {l \in UNION {[1..n -> FileNames] : n \in 0..MaxFiles} :
        \A i, j \in 1..Len(l) : l[i] = l[j] => i = j}

FindPdfPathForReview ==
    /\ pdf_path = NotLookedUp
    /\ pdf_path' = find_pdf_path_for_review(listing)
    /\ UNCHANGED <<listing, storeVars, detectVars, driverVars, prepVars, reaperVars>>

PdfInit ==
    /\ listing \in Listings
    /\ pdf_path = NotLookedUp
    /\ StoreIdle
    /\ DetectIdle
    /\ DriverIdle
    /\ PrepIdle
    /\ ReaperIdle

PdfNext == FindPdfPathForReview

PdfSpec == PdfInit /\ [][PdfNext]_vars

----------------------------------------------------------------------------
(* Properties of the review artifact lookup.                               *)

\* The candidates of a listing: its PDF files named as reflections.
CandidatesOf(files) ==
    {files[i] : i \in {k \in 1..Len(files) : is_pdf(files[k]) /\ is_reflection(files[k])}}

FirstCandidateOf(files) ==
    files[CHOOSE i \in 1..Len(files) :
            /\ files[i] \in CandidatesOf(files)
            /\ \A j \in 1..(i - 1) : files[j] \notin CandidatesOf(files)]

\* C8: with at least one candidate in the listing, the lookup selects a
\* candidate: one marked final if there is any; otherwise, if some candidate
\* carries a revision index, one whose index is numerically the highest;
\* otherwise the first candidate of the listing.
C8_PdfTieBreak ==
    (pdf_path # NotLookedUp /\ CandidatesOf(listing) # {}) =>
        LET cands == CandidatesOf(listing)
            finals == {f \in cands : is_final(f)}
            numbered == {f \in cands : is_numbered(f)}
        IN  /\ pdf_path.status = "path"
            /\ pdf_path.name \in cands
            /\ IF finals # {} THEN pdf_path.name \in finals
               ELSE IF numbered # {}
                    THEN /\ pdf_path.name \in numbered
                         /\ \A g \in numbered :
                               to_int(re_search_reflection(g))
                                 <= to_int(re_search_reflection(pdf_path.name))
                    ELSE pdf_path.name = FirstCandidateOf(listing)

\* C8 witness: reflection_2.pdf listed before reflection_10.pdf, no final one:
\* reflection_10.pdf is selected.
C8_Witness ==
    /\ listing = <<REFLECTION \o <<"_", "2">> \o DOT_PDF,
                   REFLECTION \o <<"_", "1", "0">> \o DOT_PDF>>
    /\ pdf_path = FoundPdf(REFLECTION \o <<"_", "1", "0">> \o DOT_PDF)


----------------------------------------------------------------------------
(* The driver, from the delegated experiment run to the process cleanup.   *)

\* The largest --writeup-retries tried.
MaxRetries == 3

\* The most child processes the driver has left when the cleanup starts.
MaxChildren == 2

\* What the run directory may list after a writeup attempt, which may leave
\* documents behind whether it succeeds or not.
ListingsAfterWriteup ==
    {<<>>,
     <<<<"p">> \o DOT_PDF>>,
     <<REFLECTION \o <<"_", "2">> \o DOT_PDF, REFLECTION \o <<"_", "1", "0">> \o DOT_PDF>>,
     <<REFLECTION \o <<"_", "1">> \o DOT_PDF, FINAL \o <<"_">> \o REFLECTION \o DOT_PDF>>}

\* The citation and the document call of each --writeup-type.
gather_call(writeup_type) ==
    IF writeup_type = "normal" THEN "gather_citations" ELSE "gather_icbinb_citations"

writeup_call(writeup_type) ==
    IF writeup_type = "normal" THEN "perform_writeup(page_limit=8)"
    ELSE "perform_icbinb_writeup(page_limit=4)"

\* A loop that never leaves early.
next_without_break(success, attempts_made, retries) ==
    IF attempts_made < retries THEN "gather_citations" ELSE "after_loop"

\* for attempt in range(retries): ... if writeup_success: break
next_after_attempt(success, attempts_made, retries) ==
    IF success THEN "after_loop"
    ELSE IF attempts_made < retries THEN "gather_citations"
    ELSE "after_loop"

\* if not args.skip_review and not args.skip_writeup:
review_is_entered(a, success) == ~a.skip_review /\ ~a.skip_writeup

\* perform_experiments_impl(idea_config_path): the run returns, having left
\* logs/0-run/experiment_results behind or not.
PerformExperiments ==
    /\ pc = "perform_experiments"
    /\ \E left \in BOOLEAN : run_dir' = [run_dir EXCEPT !.nested_results = left]
    /\ trace' = Append(trace, "perform_experiments")
    /\ pc' = "copy_results"
    /\ UNCHANGED <<args, outcomes, attempt, writeup_success, exception,
                   storeVars, detectVars, pdfVars, prepVars, reaperVars>>

\* A driver that removes the copied results right after the copy.
next_skipping_aggregation == "rmtree"

\* The statement after the copy: the plot aggregation.
next_after_copy == "aggregate_plots"

\* if experiment_results_dir.exists(): shutil.copytree(...)
CopyResults ==
    /\ pc = "copy_results"
    /\ IF run_dir.nested_results
       THEN /\ run_dir' = [run_dir EXCEPT !.experiment_results = TRUE]
            /\ trace' = Append(trace, "copytree")
       ELSE UNCHANGED <<run_dir, trace>>
    /\ pc' = next_after_copy
    /\ UNCHANGED <<args, outcomes, attempt, writeup_success, exception,
                   storeVars, detectVars, pdfVars, prepVars, reaperVars>>

\* aggregate_plots(base_folder=idea_dir, ...)
AggregatePlots ==
    /\ pc = "aggregate_plots"
    /\ trace' = Append(trace, "aggregate_plots")
    /\ pc' = "rmtree"
    /\ UNCHANGED <<args, outcomes, run_dir, attempt, writeup_success, exception,
                   storeVars, detectVars, pdfVars, prepVars, reaperVars>>

\* shutil.rmtree(idea_dir_path / "experiment_results"), then
\* save_token_tracker; rmtree raises when the directory is not there.
RemoveResults ==
    /\ pc = "rmtree"
    /\ IF run_dir.experiment_results
       THEN /\ run_dir' = [run_dir EXCEPT !.experiment_results = FALSE]
            /\ trace' = Append(trace, "rmtree")
            /\ pc' = "writeup"
            /\ UNCHANGED exception
       ELSE /\ exception' = "FileNotFoundError"
            /\ pc' = "crashed"
            /\ UNCHANGED <<run_dir, trace>>
    /\ UNCHANGED <<args, outcomes, attempt, writeup_success,
                   storeVars, detectVars, pdfVars, prepVars, reaperVars>>

\* if not args.skip_writeup: writeup_success = False; for attempt in range(...)
EnterWriteup ==
    /\ pc = "writeup"
    /\ IF args.skip_writeup
       THEN /\ pc' = "review"
            /\ UNCHANGED <<attempt, writeup_success>>
       ELSE /\ writeup_success' = FALSE
            /\ attempt' = 0
            /\ pc' = IF 0 < args.writeup_retries THEN "gather_citations" ELSE "after_loop"
    /\ UNCHANGED <<args, outcomes, run_dir, exception, trace,
                   storeVars, detectVars, pdfVars, prepVars, reaperVars>>

\* citations_text = gather_citations(...) / gather_icbinb_citations(...)
GatherCitations ==
    /\ pc = "gather_citations"
    /\ trace' = Append(trace, gather_call(args.writeup_type))
    /\ pc' = "perform_writeup"
    /\ UNCHANGED <<args, outcomes, run_dir, attempt, writeup_success, exception,
                   storeVars, detectVars, pdfVars, prepVars, reaperVars>>

\* writeup_success = perform_writeup(...); if writeup_success: break
PerformWriteup ==
    /\ pc = "perform_writeup"
    /\ trace' = Append(trace, writeup_call(args.writeup_type))
    /\ writeup_success' = outcomes[attempt + 1]
    /\ listing' \in ListingsAfterWriteup
    /\ attempt' = IF outcomes[attempt + 1] THEN attempt ELSE attempt + 1
    /\ pc' = next_after_attempt(outcomes[attempt + 1], attempt + 1, args.writeup_retries)
    /\ UNCHANGED <<args, outcomes, run_dir, exception, pdf_path, storeVars, detectVars, prepVars, reaperVars>>

\* if not writeup_success: print(...); then save_token_tracker
AfterWriteupLoop ==
    /\ pc = "after_loop"
    /\ trace' = IF writeup_success THEN trace
                ELSE Append(trace, "print: writeup did not complete")
    /\ pc' = "review"
    /\ UNCHANGED <<args, outcomes, run_dir, attempt, writeup_success, exception,
                   storeVars, detectVars, pdfVars, prepVars, reaperVars>>

\* The review gate and pdf_path = find_pdf_path_for_review(idea_dir), which
\* ends in UnboundLocalError when it binds no path.
ReviewLookup ==
    /\ pc = "review"
    /\ IF review_is_entered(args, writeup_success)
       THEN /\ trace' = Append(trace, "find_pdf_path_for_review")
            /\ pdf_path' = find_pdf_path_for_review(listing)
            /\ IF find_pdf_path_for_review(listing) = UnboundLocalError
               THEN exception' = "UnboundLocalError" /\ pc' = "crashed"
               ELSE UNCHANGED exception /\ pc' = "perform_review"
       ELSE /\ pc' = "cleanup_processes"
            /\ UNCHANGED <<trace, pdf_path, exception>>
    /\ UNCHANGED <<args, outcomes, run_dir, attempt, writeup_success, listing,
                   storeVars, detectVars, prepVars, reaperVars>>

\* if os.path.exists(pdf_path): load_paper, perform_review,
\* perform_imgs_cap_ref_review, and the two review files written. The path
\* names a file of the listing, so it exists.
PerformReview ==
    /\ pc = "perform_review"
    /\ trace' = trace \o <<"load_paper", "perform_review", "perform_imgs_cap_ref_review">>
    /\ pc' = "cleanup_processes"
    /\ UNCHANGED <<args, outcomes, run_dir, attempt, writeup_success, exception,
                   storeVars, detectVars, pdfVars, prepVars, reaperVars>>

\* "Start cleaning up processes": the process cleanup starts, and the
\* children of the driver process, however many there are, are enumerated.
CleanupProcesses ==
    /\ pc = "cleanup_processes"
    /\ trace' = Append(trace, "cleanup_processes")
    /\ \E n \in 0..MaxChildren : children' = [i \in 1..n |-> i]
    /\ pos' = 1
    /\ pc' = "terminate_children"
    /\ UNCHANGED <<args, outcomes, run_dir, attempt, writeup_success, exception,
                   alive, table, sweep, exit_code,
                   storeVars, detectVars, pdfVars, prepVars>>

\* The driver about to start the experiment run, for every command line and
\* every way the writeup attempts may turn out.
DriverInit ==
    /\ args \in [skip_writeup : BOOLEAN, skip_review : BOOLEAN,
                 writeup_retries : 0..MaxRetries,
                 writeup_type : {"normal", "icbinb"}]
    /\ outcomes \in [1..MaxRetries -> BOOLEAN]
    /\ run_dir = [nested_results |-> FALSE, experiment_results |-> FALSE]
    /\ pc = "perform_experiments"
    /\ attempt = 0
    /\ writeup_success = FALSE
    /\ exception = ""
    /\ trace = <<>>
    /\ StoreIdle
    /\ DetectIdle
    /\ PdfIdle
    /\ PrepIdle
    /\ ReaperIdle

DriverNext ==
    \/ PerformExperiments
    \/ CopyResults
    \/ AggregatePlots
    \/ RemoveResults
    \/ EnterWriteup
    \/ GatherCitations
    \/ PerformWriteup
    \/ AfterWriteupLoop
    \/ ReviewLookup
    \/ PerformReview
    \/ CleanupProcesses

DriverSpec == DriverInit /\ [][DriverNext]_vars

----------------------------------------------------------------------------
(* Properties of the driver.                                               *)

GatherCalls == {"gather_citations", "gather_icbinb_citations"}
WriteupCalls == {"perform_writeup(page_limit=8)", "perform_icbinb_writeup(page_limit=4)"}

\* The writeup attempts made so far.
AttemptsMade == Cardinality({i \in 1..Len(trace) : trace[i] \in WriteupCalls})

\* The attempts, among the configured ones, that succeed.
SuccessfulAttempts == {k \in 1..args.writeup_retries : outcomes[k]}

ExpectedAttempts ==
    IF SuccessfulAttempts # {}
    THEN CHOOSE k \in SuccessfulAttempts : \A m \in SuccessfulAttempts : k <= m
    ELSE args.writeup_retries

\* The writeup loop was entered and has ended.
WriteupLoopOver ==
    /\ ~args.skip_writeup
    /\ \/ pc \in {"after_loop", "review", "perform_review", "cleanup_processes",
                 "terminate_children"}
       \/ pc = "crashed" /\ exception = "UnboundLocalError"

\* C9: with N retries configured and any pattern of attempt outcomes, the
\* loop makes as many attempts as the index of the first successful one among
\* the first N, and N when none of them succeeds; never one more; every
\* attempt is a citation call followed by the document call of the same
\* variant; and writeup_success is true after the loop exactly when some
\* attempt succeeded.
C9_WriteupRetryBound ==
    /\ AttemptsMade <= ExpectedAttempts
    /\ WriteupLoopOver =>
          /\ AttemptsMade = ExpectedAttempts
          /\ writeup_success = (SuccessfulAttempts # {})
    /\ \A i \in 1..Len(trace) :
          /\ trace[i] \in WriteupCalls =>
                /\ i > 1
                /\ trace[i - 1] = gather_call(args.writeup_type)
                /\ trace[i] = writeup_call(args.writeup_type)
          /\ trace[i] \in GatherCalls =>
                (i = Len(trace) /\ pc = "perform_writeup") \/ 
                (i < Len(trace) /\ trace[i + 1] \in WriteupCalls)

\* C9 witness: three retries, the first two attempts fail and the third
\* succeeds: three attempts were made and the loop ended in success.
C9_Witness ==
    /\ args.writeup_retries = 3
    /\ outcomes = <<FALSE, FALSE, TRUE>>
    /\ pc = "after_loop"
    /\ AttemptsMade = 3
    /\ writeup_success

\* C10 (as stated): when the writeup loop has ended with every configured
\* attempt made and failed, the driver does not abort, and neither looks up
\* the review artifact nor calls the review.
C10_ExhaustedWriteupSkipsReview ==
    (/\ WriteupLoopOver
     /\ ~writeup_success
     /\ AttemptsMade > 0
     /\ AttemptsMade = args.writeup_retries) =>
        /\ pc # "crashed"
        /\ \A i \in 1..Len(trace) :
              trace[i] \notin {"find_pdf_path_for_review", "load_paper",
                               "perform_review", "perform_imgs_cap_ref_review"}

----------------------------------------------------------------------------
(* The driver from the start of the script to the delegated experiment     *)
(* run: the idea, the run directory, the adapter settings, the language,   *)
(* the snapshot of the templates and its adaptation, the run's files.      *)

\* prompt_root / "treesearch" / "parallel_agent", and the language_adapter
\* directory and change_prompt.txt inside it; every component abbreviated to
\* its first letter.
parallel_dir == <<"t", "/", "p">>
adapter_dir == parallel_dir \o <<"/", "l">>
change_prompt_path == adapter_dir \o <<"/", "c">> \o DEFAULT_SUFFIX

\* The template files a canonical tree may hold besides change_prompt.txt:
\* two templates of the adapted subtree, one of them in a subdirectory; the
\* language decider, inside the adapter subtree; a JSON template of the
\* adapted subtree; a template outside the adapted subtree.
TemplateA == parallel_dir \o <<"/", "a">> \o DEFAULT_SUFFIX
TemplateB == parallel_dir \o <<"/", "s", "/", "b">> \o DEFAULT_SUFFIX
TemplateD == LANGUAGE_DECIDER \o DEFAULT_SUFFIX
TemplateJ == parallel_dir \o <<"/", "j", ".", "j", "s", "o", "n">>
TemplateO == <<"o">> \o DEFAULT_SUFFIX
TemplateFiles == {TemplateA, TemplateB, TemplateD, TemplateJ, TemplateO}

\* What such a file holds: the first letter of its name and a newline.
shipped_content(rel) == <<path_name(rel)[1], LF>>

\* The one replacement field of the rewrite instruction, as one character.
FIELD == "{language_label}"

\* What change_prompt.txt may hold: blank text, or the field on a line ended
\* the DOS way.
InstructionFiles == {<<" ", LF>>, <<FIELD, CR, LF>>}

\* The canonical trees: any of the template files, with or without a rewrite
\* instruction.
CanonicalTrees ==
    {[q \in {[root |-> CanonicalRoot, rel |-> r] : r \in present}
              \cup {[root |-> CanonicalRoot, rel |-> r] : r \in DOMAIN instruction} |->
         IF q.rel = change_prompt_path THEN instruction[q.rel]
         ELSE shipped_content(q.rel)] :
       present \in SUBSET TemplateFiles,
       instruction \in {[r \in {} |-> <<>>]}
                       \cup {[r \in {change_prompt_path} |-> t] : t \in InstructionFiles}}

\* What the rewriting call may answer.
RewriterResponses ==
    {<<>>,
     <<LF, "y", LF, LF>>,
     <<"y", CR, LF>>}

\* dir in path.parents, for relative paths.
in_parents(dir, path) == startswith_at(path, 1, dir \o <<"/">>)

\* parallel_dir.rglob("*.txt") over the files of a root.
rglob_txt(root, dir) ==
    {q.rel : q \in {f \in DOMAIN fs : /\ f.root = root
                                        /\ in_parents(dir, f.rel)
                                        /\ endswith(path_name(f.rel), DEFAULT_SUFFIX)}}

\* parallel_dir.exists(): a directory of the snapshot is there when a file
\* was copied into it.
dir_exists(root, dir) == \E f \in DOMAIN fs : f.root = root /\ in_parents(dir, f.rel)

\* An exclusion that knows the instruction file only.
only_instruction_excluded(path) == path = change_prompt_path

\* if path == change_prompt_path: continue
\* if adapter_dir in path.parents: continue
is_excluded(path) == path = change_prompt_path \/ in_parents(adapter_dir, path)

\* An adaptation that writes through the store's default root.
write_to_default_root(prompt_root) == NoDir

\* prompt_loader.write_prompt(rel_path, rewritten, base_dir=prompt_root)
base_dir_of_adaptation(prompt_root) == prompt_root

\* The language label as text.
label_text(d) ==
    IF d.label = "C++" THEN <<"C", "+", "+">> ELSE <<"P", "y", "t", "h", "o", "n">>

\* template.format(language_label=..., code_fence=..., language_lower=...)
\* on a template whose fields are {language_label}.
RECURSIVE format(_, _)
format(template, label) ==
    IF template = <<>> THEN <<>>
    ELSE (IF Head(template) = FIELD THEN label ELSE <<Head(template)>>)
         \o format(Tail(template), label)

\* change_text = template.format(...).strip(); if change_text: += "\n"
rendered_instruction(template, label) ==
    LET text == strip(format(template, label))
    IN  IF text # <<>> THEN text \o <<LF>> ELSE <<>>

\* str.strip("\n")
strip_newlines(t) ==
    LET keep == {i \in 1..Len(t) : t[i] # LF}
    IN  IF keep = {} THEN <<>>
        ELSE SubSeq(t, CHOOSE i \in keep : \A j \in keep : i <= j,
                       CHOOSE i \in keep : \A j \in keep : j <= i)

\* rewritten = rewritten.strip("\n") + "\n"
normalized(response) == strip_newlines(response) \o <<LF>>

\* candidate_extensions: ".py" first, then the other keys of the hint table.
candidate_extensions ==
    <<<<".", "p", "y">>, <<".", "i", "p", "y", "n", "b">>, <<".", "c", "p", "p">>,
      <<".", "c", "c">>, <<".", "c", "x", "x">>, <<".", "h", "p", "p">>>>

\* The ideas file, and the code files that may lie next to it.
IdeasFile == <<"i", ".", "j", "s", "o", "n">>
SiblingSets ==
    {{}, {<<".", "p", "y">>}, {<<".", "c", "p", "p">>},
     {<<".", "p", "y">>, <<".", "c", "p", "p">>}}

\* for ext in candidate_extensions: ... if candidate.exists(): ...; break
located_code(load_code, siblings) ==
    LET found == {i \in 1..Len(candidate_extensions) : candidate_extensions[i] \in siblings}
    IN  IF ~load_code \/ found = {} THEN NoPath
        ELSE CodePath(with_suffix(IdeasFile,
                 candidate_extensions[CHOOSE i \in found : \A j \in found : i <= j]))

\* The two configuration errors.
SettingsRequired == "ValueError: prompt_adapter configuration is required"
ModelRequired == "ValueError: prompt_adapter section must include a 'model' entry"

\* _load_prompt_adapter_settings: None without the file or the section, an
\* error for a section without a model, the section otherwise.
_load_prompt_adapter_settings(config) ==
    CASE config \in {"no file", "no section"} -> "None"
      [] config = "no model" -> ModelRequired
      [] OTHER -> "settings"

\* The variables of the driver's later phases, and what the preparation
\* leaves alone of the others.
laterVars == <<args, outcomes, run_dir, attempt, writeup_success>>

\* The statement after the language detection: the snapshot.
next_skipping_preparation == "perform_experiments"
next_after_detection == "snapshot"

\* args = parse_arguments(); ...; idea = ideas[args.idea_idx]
LoadIdea ==
    /\ pc = "load_ideas"
    /\ trace' = Append(trace, "load_ideas")
    /\ pc' = "mkdir"
    /\ UNCHANGED <<laterVars, exception, storeVars, detectVars, pdfVars, prepVars,
                   reaperVars>>

\* idea_dir_path.mkdir(parents=True, exist_ok=True)
MakeRunDir ==
    /\ pc = "mkdir"
    /\ idea_dir' = [idea_dir EXCEPT !.exists = TRUE]
    /\ trace' = Append(trace, "mkdir")
    /\ pc' = "locate_code"
    /\ UNCHANGED <<laterVars, exception, storeVars, detectVars, pdfVars, reaperVars,
                   settings, repo, change_text, todo, requests>>

\* if args.load_code: the first existing sibling of the ideas file.
LocateCode ==
    /\ pc = "locate_code"
    /\ \E load_code \in BOOLEAN, siblings \in SiblingSets :
          code_path' = located_code(load_code, siblings)
    /\ pc' = "load_settings"
    /\ UNCHANGED <<laterVars, exception, trace, storeVars, pdfVars, prepVars, reaperVars,
                   idea, classifier, detected, dpc>>

\* prompt_adapter_settings = _load_prompt_adapter_settings(...);
\* if prompt_adapter_settings is None: raise ValueError(...)
LoadAdapterSettings ==
    /\ pc = "load_settings"
    /\ LET got == _load_prompt_adapter_settings(settings)
       IN  IF got = "settings"
           THEN pc' = "detect" /\ UNCHANGED exception
           ELSE /\ pc' = "crashed"
                /\ exception' = IF got = "None" THEN SettingsRequired ELSE got
    /\ UNCHANGED <<laterVars, trace, storeVars, detectVars, pdfVars, prepVars,
                   reaperVars>>

\* language_label, code_fence, adapt_to_cpp = _detect_target_language(...):
\* from the extension hint, or from the classifier, asked with the decider
\* template load_prompt gives; a missing template ends the driver.
DetectLanguage ==
    /\ pc = "detect"
    /\ IF hint_of(code_path) # "None"
       THEN /\ detected' = IF hint_of(code_path) = "c++" THEN CppTriple ELSE PythonTriple
            /\ trace' = Append(trace, "detect_target_language")
            /\ pc' = next_after_detection
            /\ UNCHANGED <<classifier, exception, storeVars>>
       ELSE /\ load_prompt_call(LANGUAGE_DECIDER)
            /\ IF load_prompt(LANGUAGE_DECIDER).ok
               THEN \E response \in {<<"c", "p", "p">>, <<"p", "y", "t", "h", "o", "n">>} :
                      /\ classifier' = [calls |-> classifier.calls + 1,
                                        response |-> response]
                      /\ detected' = IF says_cpp(decision_of(response))
                                     THEN CppTriple ELSE PythonTriple
                      /\ trace' = trace \o <<"detect_target_language",
                                             "get_response_from_llm(language_decider)">>
                      /\ pc' = next_after_detection
                      /\ UNCHANGED exception
               ELSE /\ trace' = Append(trace, "detect_target_language")
                    /\ pc' = "crashed"
                    /\ exception' = "PromptNotFoundError"
                    /\ UNCHANGED <<classifier, detected>>
    /\ UNCHANGED <<laterVars, idea, code_path, dpc, pdfVars, prepVars, reaperVars>>

\* shutil.copytree(src_prompt_dir, dst_prompt_dir, dirs_exist_ok=True):
\* every canonical file is copied, byte for byte, into the run directory.
SnapshotPrompts ==
    /\ pc = "snapshot"
    /\ fs' = [q \in DOMAIN fs \cup {[root |-> SnapshotRoot, rel |-> f.rel] :
                                        f \in {g \in DOMAIN fs : g.root = CanonicalRoot}} |->
                 IF q.root = SnapshotRoot
                 THEN fs[[root |-> CanonicalRoot, rel |-> q.rel]]
                 ELSE fs[q]]
    /\ idea_dir' = [idea_dir EXCEPT !.files = @ \cup {"prompt"}]
    /\ trace' = Append(trace, "copytree(prompt)")
    /\ pc' = IF detected.adapt THEN "adapt" ELSE "repoint"
    /\ UNCHANGED <<laterVars, exception, PROMPT_DIR, cache, op, ret, seen, threadVars,
                   detectVars, pdfVars, reaperVars,
                   settings, repo, change_text, todo, requests>>

\* _adapt_parallel_agent_prompts up to its loop: nothing to do without the
\* parallel_agent directory; otherwise the rewrite instruction, when the
\* snapshot has one, is rendered, and the client is created.
AdaptStart ==
    /\ pc = "adapt"
    /\ IF ~dir_exists(SnapshotRoot, parallel_dir)
       THEN /\ pc' = "repoint"
            /\ UNCHANGED <<change_text, todo, trace, op, ret>>
       ELSE /\ IF exists([root |-> SnapshotRoot, rel |-> change_prompt_path])
               THEN /\ ret' = read_prompt(change_prompt_path, SnapshotRoot)
                    /\ op' = [kind |-> "load_from", name |-> change_prompt_path,
                              base_dir |-> SnapshotRoot, content |-> <<>>,
                              after_write |-> FALSE, written |-> <<>>,
                              before |-> NoResult, cached |-> DOMAIN cache]
                    /\ change_text' =
                          rendered_instruction(
                              read_prompt(change_prompt_path, SnapshotRoot).text,
                              label_text(detected))
               ELSE /\ change_text' = <<>>
                    /\ UNCHANGED <<op, ret>>
            /\ trace' = Append(trace, "create_client")
            /\ todo' = rglob_txt(SnapshotRoot, parallel_dir)
            /\ pc' = IF rglob_txt(SnapshotRoot, parallel_dir) = {}
                     THEN "repoint" ELSE "adapt_loop"
    /\ UNCHANGED <<laterVars, exception, PROMPT_DIR, fs, cache, seen, threadVars,
                   detectVars, pdfVars, reaperVars,
                   settings, idea_dir, repo, requests>>

\* An iteration of the loop over rglob that comes to the instruction file or
\* to a file of the adapter directory: continue.
SkipAdapterFile ==
    /\ pc = "adapt_loop"
    /\ \E path \in todo :
          /\ is_excluded(path)
          /\ todo' = todo \ {path}
          /\ pc' = IF todo \ {path} = {} THEN "repoint" ELSE "adapt_loop"
    /\ UNCHANGED <<laterVars, exception, trace, storeVars, detectVars, pdfVars,
                   reaperVars, settings, idea_dir, repo, change_text, requests>>

\* An iteration that comes to any other file: its content is read from the
\* snapshot, sent with the instruction in front, and the normalized answer
\* is written back through write_prompt.
RewriteTemplate ==
    /\ pc = "adapt_loop"
    /\ \E path \in todo, response \in RewriterResponses :
          /\ ~is_excluded(path)
          /\ write_prompt_call(path, normalized(response),
                               base_dir_of_adaptation(SnapshotRoot))
          /\ requests' = Append(requests,
                [rel |-> path,
                 input |-> change_text \o read_prompt(path, SnapshotRoot).text,
                 response |-> response])
          /\ trace' = Append(trace, "get_response_from_llm(prompt_adapter)")
          /\ todo' = todo \ {path}
          /\ pc' = IF todo \ {path} = {} THEN "repoint" ELSE "adapt_loop"
    /\ UNCHANGED <<laterVars, exception, detectVars, pdfVars, reaperVars,
                   settings, idea_dir, repo, change_text>>

\* A re-pointing through the environment variable alone, which the store,
\* imported long before, does not read again.
root_left_canonical == CanonicalRoot

\* prompt_loader.PROMPT_DIR = Path(prompt_dir), the directory
\* _snapshot_and_prepare_prompts returned.
root_after_repoint == SnapshotRoot

\* os.environ["AI_SCIENTIST_PROMPT_DIR"] = ...; prompt_loader.PROMPT_DIR =
\* Path(prompt_dir); prompt_loader.load_prompt.cache_clear(); the tree-search
\* modules are reloaded.
RepointPromptDir ==
    /\ pc = "repoint"
    /\ PROMPT_DIR' = root_after_repoint
    /\ cache' = [n \in {} |-> <<>>]
    /\ seen' = NoneSeen
    /\ trace' = Append(trace, "reload_modules")
    /\ pc' = "idea_files"
    /\ UNCHANGED <<laterVars, exception, fs, op, ret, threadVars, detectVars, pdfVars, prepVars,
                   reaperVars>>

\* idea_to_markdown(...); the code and the dataset reference attached;
\* idea.json written.
WriteIdeaFiles ==
    /\ pc = "idea_files"
    /\ idea_dir' = [idea_dir EXCEPT !.files = @ \cup {"idea.md", "idea.json"}]
    /\ trace' = Append(trace, "idea_to_markdown")
    /\ pc' = "edit_config"
    /\ UNCHANGED <<laterVars, exception, storeVars, detectVars, pdfVars, reaperVars,
                   settings, repo, change_text, todo, requests>>

\* idea_config_path = edit_bfts_config_file(...)
EditConfig ==
    /\ pc = "edit_config"
    /\ trace' = Append(trace, "edit_bfts_config_file")
    /\ pc' = "perform_experiments"
    /\ UNCHANGED <<laterVars, exception, storeVars, detectVars, pdfVars, prepVars,
                   reaperVars>>

\* The driver at the start of the script, on the ideas file and the
\* configuration it was given and the canonical templates of the repository.
PrepareInit ==
    /\ PROMPT_DIR = CanonicalRoot
    /\ fs \in CanonicalTrees
    /\ repo = fs
    /\ cache = [n \in {} |-> <<>>]
    /\ op = NoOp
    /\ ret = NoResult
    /\ seen = NoneSeen
    /\ ThreadsIdle
    /\ idea \in {i \in Ideas : i.Programming_Language = ""}
    /\ code_path = NoPath
    /\ classifier = NoCalls
    /\ detected = NoDetection
    /\ dpc = "idle"
    /\ settings \in {"no file", "no section", "no model", "present"}
    /\ idea_dir = NoRunDir
    /\ change_text = <<>>
    /\ todo = {}
    /\ requests = <<>>
    /\ args = [skip_writeup |-> FALSE, skip_review |-> FALSE,
               writeup_retries |-> 0, writeup_type |-> "icbinb"]
    /\ outcomes = <<>>
    /\ run_dir = [nested_results |-> FALSE, experiment_results |-> FALSE]
    /\ pc = "load_ideas"
    /\ attempt = 0
    /\ writeup_success = FALSE
    /\ exception = ""
    /\ trace = <<>>
    /\ PdfIdle
    /\ ReaperIdle

PrepareNext ==
    \/ LoadIdea
    \/ MakeRunDir
    \/ LocateCode
    \/ LoadAdapterSettings
    \/ DetectLanguage
    \/ SnapshotPrompts
    \/ AdaptStart
    \/ SkipAdapterFile
    \/ RewriteTemplate
    \/ RepointPromptDir
    \/ WriteIdeaFiles
    \/ EditConfig

PrepareSpec == PrepareInit /\ [][PrepareNext]_vars

\* The names the code run after the re-pointing (the reloaded tree-search
\* modules, the experiment run) asks the store for: a template of the
\* adapted subtree without its extension, the language decider, and a
\* template that is not a .txt file.
ClientNames == {parallel_dir \o <<"/", "a">>, LANGUAGE_DECIDER, TemplateJ}

\* load_prompt(name) called in the driver's process once the root has been
\* re-pointed.
ClientLoad(name) ==
    /\ pc \in {"idea_files", "edit_config", "perform_experiments"}
    /\ LoadPrompt(name)

RepointNext ==
    \/ PrepareNext
    \/ \E name \in ClientNames : ClientLoad(name)

\* The preparation of a run followed by loads from the store.
RepointSpec == PrepareInit /\ [][RepointNext]_vars

\* The whole driver up to the start of the process cleanup, on a repository
\* that ships one template of the adapted subtree, the language decider and
\* a rewrite instruction, for every command line and with the writeup
\* attempts all failing or all succeeding.
PipelineInit ==
    /\ PROMPT_DIR = CanonicalRoot
    /\ fs = [q \in {[root |-> CanonicalRoot, rel |-> r] :
                       r \in {TemplateA, TemplateD, change_prompt_path}} |->
                IF q.rel = change_prompt_path THEN <<FIELD, CR, LF>>
                ELSE shipped_content(q.rel)]
    /\ repo = fs
    /\ cache = [n \in {} |-> <<>>]
    /\ op = NoOp
    /\ ret = NoResult
    /\ seen = NoneSeen
    /\ ThreadsIdle
    /\ idea \in {i \in Ideas : i.Programming_Language = ""}
    /\ code_path = NoPath
    /\ classifier = NoCalls
    /\ detected = NoDetection
    /\ dpc = "idle"
    /\ settings \in {"no section", "present"}
    /\ idea_dir = NoRunDir
    /\ change_text = <<>>
    /\ todo = {}
    /\ requests = <<>>
    /\ args \in [skip_writeup : BOOLEAN, skip_review : BOOLEAN,
                 writeup_retries : 0..MaxRetries,
                 writeup_type : {"normal", "icbinb"}]
    /\ outcomes \in {[i \in 1..MaxRetries |-> b] : b \in BOOLEAN}
    /\ run_dir = [nested_results |-> FALSE, experiment_results |-> FALSE]
    /\ pc = "load_ideas"
    /\ attempt = 0
    /\ writeup_success = FALSE
    /\ exception = ""
    /\ trace = <<>>
    /\ PdfIdle
    /\ ReaperIdle

PipelineNext ==
    \/ PrepareNext
    \/ DriverNext

PipelineSpec == PipelineInit /\ [][PipelineNext]_vars

----------------------------------------------------------------------------
(* The process cleanup: the children of the driver are terminated, then    *)
(* the system process table is swept by keyword, then the driver exits.    *)

\* The most processes of other programs in the system process table.
MaxProcs == 2

\* keywords = ["python", "torch", "mp", "bfts", "experiment"]
keywords ==
    {<<"p", "y", "t", "h", "o", "n">>,
     <<"t", "o", "r", "c", "h">>,
     <<"m", "p">>,
     <<"b", "f", "t", "s">>,
     <<"e", "x", "p", "e", "r", "i", "m", "e", "n", "t">>}

\* " ".join(argv)
RECURSIVE join(_)
join(argv) ==
    IF argv = <<>> THEN <<>>
    ELSE IF Len(argv) = 1 THEN argv[1]
    ELSE argv[1] \o <<" ">> \o join(Tail(argv))

\* cmdline = " ".join(proc.cmdline()).lower();
\* any(keyword in cmdline for keyword in keywords)
matches_keyword(argv) == \E kw \in keywords : contains(lower(join(argv)), kw)

\* The command line of the driver process itself: the script started by a
\* Python interpreter, or a renamed copy started under an interpreter whose
\* name holds none of the keywords.
DriverCmdlines ==
    {<<<<"p", "y", "t", "h", "o", "n">>,
       <<"l", "a", "u", "n", "c", "h", "_", "s", "c", "i", "e", "n", "t", "i", "s", "t",
         "_", "b", "f", "t", "s", ".", "p", "y">>>>,
     <<<<"p", "y", "p", "y", "3">>, <<"r", "u", "n", ".", "p", "y">>>>}

\* Command lines of other processes of the system.
OtherCmdlines ==
    {<<<<"s", "s", "h", "d">>>>,
     <<<<"/", "b", "i", "n", "/", "P", "y", "t", "h", "o", "n", "3">>,
       <<"t", ".", "p", "y">>>>}

\* The pid of the driver process in the model; other processes are numbered
\* from OtherPidBase, children from 1.
SelfPid == 0
OtherPidBase == 10

\* What psutil.process_iter yields: every process of the system, the driver
\* process among them, in pid order, which puts the driver anywhere.
Tables ==
    {[i \in 1..(n + 1) |->
         IF i = at THEN [pid |-> SelfPid, cmdline |-> own]
         ELSE [pid |-> OtherPidBase + (IF i < at THEN i ELSE i - 1),
               cmdline |-> others[IF i < at THEN i ELSE i - 1]]] :
       <<n, at>> \in {<<m, a>> \in (0..MaxProcs) \X (1..(MaxProcs + 1)) : a <= m + 1},
       own \in DriverCmdlines,
       others \in [1..MaxProcs -> OtherCmdlines]}

\* An except clause that lets a wait timeout through.
except_without_timeout == {"NoSuchProcess", "AccessDenied"}

\* except (psutil.NoSuchProcess, psutil.AccessDenied): continue
except_of_child_loops == {"NoSuchProcess", "AccessDenied"}

\* except (psutil.NoSuchProcess, psutil.AccessDenied, psutil.TimeoutExpired):
\*     continue
except_of_sweep == {"NoSuchProcess", "AccessDenied", "TimeoutExpired"}

\* One call on a process and how it ended.
Call(pass, pid, call, result) ==
    [pass |-> pass, pid |-> pid, call |-> call, result |-> result]

PsutilErrors == {"NoSuchProcess", "AccessDenied", "TimeoutExpired"}

\* The error a sequence of calls ended in, "" when it ended in none.
error_of(calls) ==
    IF calls # <<>> /\ calls[Len(calls)].result \in PsutilErrors
    THEN calls[Len(calls)].result
    ELSE ""

\* for child in children: try: child.send_signal(signal.SIGTERM)
TerminateChild ==
    /\ pc = "terminate_children"
    /\ pos <= Len(children)
    /\ \E result \in {"ok", "NoSuchProcess", "AccessDenied"} :
          /\ sweep' = Append(sweep, Call(1, children[pos], "send_signal(SIGTERM)", result))
          /\ IF result = "ok" \/ result \in except_of_child_loops
             THEN pos' = pos + 1 /\ UNCHANGED <<pc, exception>>
             ELSE pc' = "crashed" /\ exception' = result /\ UNCHANGED pos
    /\ UNCHANGED <<args, outcomes, run_dir, attempt, writeup_success, trace,
                   children, alive, table, exit_code,
                   storeVars, detectVars, pdfVars, prepVars>>

\* The children already found gone when they were signalled.
GoneWhenSignalled ==
    {sweep[i].pid : i \in {j \in 1..Len(sweep) :
        sweep[j].pass = 1 /\ sweep[j].call = "send_signal(SIGTERM)"
                          /\ sweep[j].result = "NoSuchProcess"}}

\* gone, alive = psutil.wait_procs(children, timeout=3): any of the children
\* that were there may still be alive after the wait.
WaitProcs ==
    /\ pc = "terminate_children"
    /\ pos > Len(children)
    /\ alive' \in SUBSET ({children[i] : i \in 1..Len(children)} \ GoneWhenSignalled)
    /\ pc' = "kill_alive"
    /\ UNCHANGED <<args, outcomes, run_dir, attempt, writeup_success, exception, trace,
                   children, table, pos, sweep, exit_code,
                   storeVars, detectVars, pdfVars, prepVars>>

\* A kill loop over every enumerated child, whatever the wait reported.
children_not_yet_killed ==
    {children[i] : i \in 1..Len(children)}
        \ {sweep[i].pid : i \in {j \in 1..Len(sweep) :
                sweep[j].pass = 1 /\ sweep[j].call = "kill"}}

\* The processes of `alive` the kill loop has not come to yet.
NotYetKilled ==
    alive \ {sweep[i].pid : i \in {j \in 1..Len(sweep) :
                sweep[j].pass = 1 /\ sweep[j].call = "kill"}}

\* for process in alive: try: process.kill(); the list comes from a set,
\* in no particular order.
KillAlive ==
    /\ pc = "kill_alive"
    /\ \E process \in NotYetKilled, result \in {"ok", "NoSuchProcess", "AccessDenied"} :
          /\ sweep' = Append(sweep, Call(1, process, "kill", result))
          /\ IF result = "ok" \/ result \in except_of_child_loops
             THEN UNCHANGED <<pc, exception>>
             ELSE pc' = "crashed" /\ exception' = result
    /\ UNCHANGED <<args, outcomes, run_dir, attempt, writeup_success, trace,
                   children, alive, table, pos, exit_code,
                   storeVars, detectVars, pdfVars, prepVars>>

\* for proc in psutil.process_iter(["name", "cmdline"]): the second pass
\* starts on the process table as it is then.
ProcessIter ==
    /\ pc = "kill_alive"
    /\ NotYetKilled = {}
    /\ table' \in Tables
    /\ pos' = 1
    /\ sweep' = <<>>
    /\ pc' = "sweep"
    /\ UNCHANGED <<args, outcomes, run_dir, attempt, writeup_success, exception, trace,
                   children, alive, exit_code,
                   storeVars, detectVars, pdfVars, prepVars>>

\* The ways one iteration of the keyword loop can go for a process other
\* than the driver: proc.cmdline() raises; the command line holds no
\* keyword; send_signal raises; wait(timeout=3) times out; or the process
\* exits within the wait, and is_running() is false.
sweep_of(proc) ==
    {<<Call(2, proc.pid, "cmdline", err)>> : err \in {"NoSuchProcess", "AccessDenied"}}
    \cup
    (IF ~matches_keyword(proc.cmdline)
     THEN {<<Call(2, proc.pid, "cmdline", "no keyword")>>}
     ELSE {<<Call(2, proc.pid, "send_signal(SIGTERM)", err)>> :
               err \in {"NoSuchProcess", "AccessDenied"}}
          \cup
          {<<Call(2, proc.pid, "send_signal(SIGTERM)", "ok"),
             Call(2, proc.pid, "wait(timeout=3)", "TimeoutExpired")>>,
           <<Call(2, proc.pid, "send_signal(SIGTERM)", "ok"),
             Call(2, proc.pid, "wait(timeout=3)", "exited"),
             Call(2, proc.pid, "is_running", "False")>>})

\* One iteration of the keyword loop on another process.
SweepProcess ==
    /\ pc = "sweep"
    /\ pos <= Len(table)
    /\ table[pos].pid # SelfPid
    /\ \E calls \in sweep_of(table[pos]) :
          /\ sweep' = sweep \o calls
          /\ IF error_of(calls) = "" \/ error_of(calls) \in except_of_sweep
             THEN pos' = pos + 1 /\ UNCHANGED <<pc, exception>>
             ELSE pc' = "crashed" /\ exception' = error_of(calls) /\ UNCHANGED pos
    /\ UNCHANGED <<args, outcomes, run_dir, attempt, writeup_success, trace,
                   children, alive, table, exit_code,
                   storeVars, detectVars, pdfVars, prepVars>>

\* The iteration of the keyword loop that comes to the driver process
\* itself: when its own command line holds a keyword, the driver sends
\* SIGTERM to itself, for which Python installs no handler, and is
\* terminated by the signal.
SweepSelf ==
    /\ pc = "sweep"
    /\ pos <= Len(table)
    /\ table[pos].pid = SelfPid
    /\ IF matches_keyword(table[pos].cmdline)
       THEN /\ sweep' = Append(sweep, Call(2, SelfPid, "send_signal(SIGTERM)", "ok"))
            /\ pc' = "killed"
            /\ exit_code' = "killed by SIGTERM"
            /\ UNCHANGED pos
       ELSE /\ sweep' = Append(sweep, Call(2, SelfPid, "cmdline", "no keyword"))
            /\ pos' = pos + 1
            /\ UNCHANGED <<pc, exit_code>>
    /\ UNCHANGED <<args, outcomes, run_dir, attempt, writeup_success, exception, trace,
                   children, alive, table,
                   storeVars, detectVars, pdfVars, prepVars>>

\* sys.exit(0)
SysExit ==
    /\ pc = "sweep"
    /\ pos > Len(table)
    /\ pc' = "done"
    /\ exit_code' = "exit 0"
    /\ UNCHANGED <<args, outcomes, run_dir, attempt, writeup_success, exception, trace,
                   children, alive, table, pos, sweep,
                   storeVars, detectVars, pdfVars, prepVars>>

\* The driver at "Start cleaning up processes", every phase before it
\* having completed, with any number of children left.
ReaperInit ==
    /\ args \in [skip_writeup : {TRUE}, skip_review : {TRUE},
                 writeup_retries : {0}, writeup_type : {"icbinb"}]
    /\ outcomes = <<>>
    /\ run_dir = [nested_results |-> TRUE, experiment_results |-> FALSE]
    /\ pc = "terminate_children"
    /\ attempt = 0
    /\ writeup_success = FALSE
    /\ exception = ""
    /\ trace = <<"perform_experiments", "copytree", "aggregate_plots", "rmtree",
                 "cleanup_processes">>
    /\ \E n \in 0..MaxChildren : children = [i \in 1..n |-> i]
    /\ alive = {}
    /\ table = <<>>
    /\ pos = 1
    /\ sweep = <<>>
    /\ exit_code = "running"
    /\ StoreIdle
    /\ DetectIdle
    /\ PdfIdle
    /\ PrepIdle

ReaperNext ==
    \/ TerminateChild
    \/ WaitProcs
    \/ KillAlive
    \/ ProcessIter
    \/ SweepProcess
    \/ SweepSelf
    \/ SysExit

ReaperSpec == ReaperInit /\ [][ReaperNext]_vars

----------------------------------------------------------------------------
(* Properties of the driver's phases and of the process cleanup.           *)

\* The review calls.
ReviewCalls == {"load_paper", "perform_review", "perform_imgs_cap_ref_review"}

\* The driver process has ended, by an uncaught exception, by sys.exit or by
\* a signal.
DriverTerminated == pc \in {"crashed", "done", "killed"}

\* C11 (as stated): whenever the driver has terminated after starting its
\* phases, the process cleanup was started before, whichever phase failed.
C11_TeardownUnconditional ==
    DriverTerminated => \E i \in 1..Len(trace) : trace[i] = "cleanup_processes"

\* An explicit outcome of the lookup for a directory without candidates.
NoReviewableArtifact == [status |-> "no reviewable artifact found", name |-> <<>>]

\* C12 (as stated): when the review lookup has run on a directory without a
\* candidate (no PDF, or none named as a reflection), its outcome is the
\* explicit "no reviewable artifact found" error, not an unbound path, and
\* no review call is made.
C12_NoCandidateExplicitError ==
    (pdf_path # NotLookedUp /\ CandidatesOf(listing) = {}) =>
        /\ pdf_path = NoReviewableArtifact
        /\ \A i \in 1..Len(trace) : trace[i] \notin ReviewCalls

\* What the code gives in that case: the unbound local raises, which ends
\* the driver; no review call is made.
NoCandidateRaisesUnbound ==
    (pdf_path # NotLookedUp /\ CandidatesOf(listing) = {}) =>
        /\ pdf_path = UnboundLocalError
        /\ pc = "crashed" /\ exception = "UnboundLocalError"
        /\ \A i \in 1..Len(trace) : trace[i] \notin ReviewCalls

\* C19: every removal of the intermediate results directory comes after the
\* copy out of the nested results path and after the plot aggregation has
\* returned, and neither a copy nor an aggregation follows it.
C19_CopyThenDelete ==
    \A j \in 1..Len(trace) : trace[j] = "rmtree" =>
        /\ \E i \in 1..(j - 1) : trace[i] = "copytree"
        /\ \E i \in 1..(j - 1) : trace[i] = "aggregate_plots"
        /\ \A i \in (j + 1)..Len(trace) : trace[i] \notin {"copytree", "aggregate_plots"}

\* C19 witness: the results were copied, the plots aggregated, and the
\* intermediate directory has been removed.
C19_Witness ==
    /\ pc = "writeup"
    /\ run_dir.nested_results
    /\ ~run_dir.experiment_results
    /\ trace = <<"perform_experiments", "copytree", "aggregate_plots", "rmtree">>

\* The calls of the pass under way that are `call`, and the processes they
\* were made on.
CallsOf(call) == SelectSeq(sweep, LAMBDA c : c.call = call)
PidsOf(calls) == [i \in 1..Len(calls) |-> calls[i].pid]

\* The first call made on each process the second pass has come to.
FirstCalls ==
    SelectSeq(sweep, LAMBDA c : c.call = "cmdline" \/ c.call = "send_signal(SIGTERM)")

C14_ExitCodeZero ==
    DriverTerminated =>
        /\ pc = "done"
        /\ exit_code = "exit 0"
        /\ PidsOf(FirstCalls) = [i \in 1..Len(table) |-> table[i].pid]

\* What holds instead: the driver ends by sys.exit(0) exactly when its own
\* command line holds no keyword, and by its own SIGTERM otherwise.
ExitsZeroUnlessOwnCmdlineMatches ==
    DriverTerminated =>
        \E i \in 1..Len(table) :
            /\ table[i].pid = SelfPid
            /\ IF matches_keyword(table[i].cmdline)
               THEN pc = "killed" /\ exit_code = "killed by SIGTERM"
               ELSE pc = "done" /\ exit_code = "exit 0"


----------------------------------------------------------------------------
(* Properties of the preparation and of the order of the phases.           *)

\* The calls into the collaborators made before the experiment run.
DelegatedCalls ==
    {"get_response_from_llm(language_decider)", "create_client",
     "get_response_from_llm(prompt_adapter)", "reload_modules",
     "idea_to_markdown", "edit_bfts_config_file", "perform_experiments"}

\* C15 (as stated): when the driver has failed for want of adapter settings
\* with language inference needed (no extension hint), no classification and
\* no other delegated call was made, and the run directory has neither been
\* created nor written.
C15_SettingsFailureBeforeRunDir ==
    (exception = SettingsRequired /\ hint_of(code_path) = "None") =>
        /\ classifier.calls = 0
        /\ \A i \in 1..Len(trace) : trace[i] \notin DelegatedCalls
        /\ ~idea_dir.exists
        /\ idea_dir.files = {}

\* What holds of that failure: no delegated call was made and nothing was
\* written into the run directory, which mkdir has created already.
SettingsFailureBeforeDelegation ==
    exception = SettingsRequired =>
        /\ classifier.calls = 0
        /\ \A i \in 1..Len(trace) : trace[i] \notin DelegatedCalls
        /\ idea_dir = [exists |-> TRUE, files |-> {}]

\* A file of the adapter subtree, the rewrite instruction among them.
InAdapterSubtree(rel) == rel = change_prompt_path \/ in_parents(adapter_dir, rel)

\* The snapshot's file of a relative path, and the canonical one.
InSnapshot(rel) == [root |-> SnapshotRoot, rel |-> rel]
InCanonical(rel) == [root |-> CanonicalRoot, rel |-> rel]

\* C16: no file of the adapter subtree, the rewrite instruction included, is
\* sent to the rewriting call or written by write_prompt, and in the snapshot
\* every such file holds what the canonical one holds.
C16_AdapterExclusion ==
    /\ \A i \in 1..Len(requests) : ~InAdapterSubtree(requests[i].rel)
    /\ op.kind = "write" =>
          ~InAdapterSubtree(_resolve_prompt_path(op.name, op.base_dir).rel)
    /\ \A q \in DOMAIN fs :
          (q.root = SnapshotRoot /\ InAdapterSubtree(q.rel)) =>
              fs[q] = repo[InCanonical(q.rel)]

\* C16 witness: the adaptation has rewritten a template of a snapshot that
\* holds the rewrite instruction and the language decider, and is over.
C16_Witness ==
    /\ detected.adapt
    /\ pc = "perform_experiments"
    /\ requests # <<>>
    /\ exists(InSnapshot(change_prompt_path))
    /\ exists(InSnapshot(TemplateD))

\* C17: the files under the canonical root are, at every moment of the
\* snapshot and the adaptation, the files the repository ships, unchanged,
\* and every write_prompt lands under the snapshot root.
C17_CanonicalPristine ==
    /\ [q \in {f \in DOMAIN fs : f.root = CanonicalRoot} |-> fs[q]] = repo
    /\ op.kind = "write" =>
          /\ op.base_dir = SnapshotRoot
          /\ exists(InSnapshot(op.name))

\* C17 witness: two templates were rewritten, the second with an answer that
\* differs from what the file held, and the preparation is over.
C17_Witness ==
    /\ pc = "perform_experiments"
    /\ Len(requests) = 2
    /\ op.kind = "write"
    /\ fs[InSnapshot(op.name)] # repo[InCanonical(op.name)]

\* The adaptation was asked for and is over.
AdaptationOver ==
    /\ detected.adapt
    /\ pc \in {"repoint", "idea_files", "edit_config", "perform_experiments"}

\* The rewriting calls made for a file.
RequestsFor(rel) == {i \in 1..Len(requests) : requests[i].rel = rel}

\* C20 (as stated): once the adaptation is over, every file of the snapshot
\* under the adapted subtree and outside the adapter subtree, whatever its
\* name, was sent to the rewriting call exactly once and holds the normalized
\* response.
C20_EveryTemplateRewrittenOnce ==
    AdaptationOver =>
        \A q \in DOMAIN fs :
            (q.root = SnapshotRoot /\ in_parents(parallel_dir, q.rel)
                                   /\ ~InAdapterSubtree(q.rel)) =>
                /\ Cardinality(RequestsFor(q.rel)) = 1
                /\ fs[q] = normalized(requests[CHOOSE i \in RequestsFor(q.rel) : TRUE].response)

\* What holds instead: that is so for the files named *.txt, and a file of
\* another name is never sent and stays as it was copied.
TxtTemplatesRewrittenOnce ==
    AdaptationOver =>
        \A q \in DOMAIN fs :
            (q.root = SnapshotRoot /\ in_parents(parallel_dir, q.rel)
                                   /\ ~InAdapterSubtree(q.rel)) =>
                IF endswith(path_name(q.rel), DEFAULT_SUFFIX)
                THEN /\ Cardinality(RequestsFor(q.rel)) = 1
                     /\ fs[q] = normalized(
                            requests[CHOOSE i \in RequestsFor(q.rel) : TRUE].response)
                ELSE /\ RequestsFor(q.rel) = {}
                     /\ fs[q] = repo[InCanonical(q.rel)]

\* The phase a call or file operation of the driver belongs to, counted from
\* LOAD_IDEA (1) to TEARDOWN (10).
PhaseOf(call) ==
    CASE call \in {"load_ideas", "mkdir"} -> 1
      [] call \in {"detect_target_language",
                   "get_response_from_llm(language_decider)"} -> 2
      [] call \in {"copytree(prompt)", "create_client",
                   "get_response_from_llm(prompt_adapter)", "reload_modules"} -> 3
      [] call \in {"idea_to_markdown", "edit_bfts_config_file"} -> 4
      [] call = "perform_experiments" -> 5
      [] call \in {"copytree", "aggregate_plots"} -> 6
      [] call = "rmtree" -> 7
      [] call \in GatherCalls \cup WriteupCalls
                  \cup {"print: writeup did not complete"} -> 8
      [] call \in {"find_pdf_path_for_review"} \cup ReviewCalls -> 9
      [] call = "cleanup_processes" -> 10

\* The call each phase other than the writeup starts with or consists of.
PhaseCalls ==
    {"load_ideas", "detect_target_language", "copytree(prompt)",
     "edit_bfts_config_file", "perform_experiments", "aggregate_plots", "rmtree",
     "find_pdf_path_for_review", "cleanup_processes"}

\* The phases every run goes through before it may go further: all up to
\* CLEANUP_ARTIFACTS.
MandatoryBefore(phase) == {q \in 1..7 : q < phase}

\* C18: the calls of the driver come phase by phase in the order LOAD_IDEA,
\* DETECT_LANGUAGE, PREPARE_PROMPTS, MATERIALIZE_CONFIG, RUN_EXPERIMENTS,
\* AGGREGATE_PLOTS, CLEANUP_ARTIFACTS, WRITEUP, REVIEW, TEARDOWN, each call
\* made after the one before has returned; no phase but the writeup is gone
\* through twice; no phase is reached without the phases up to
\* CLEANUP_ARTIFACTS that come before it; and the experiment run starts with
\* the templates snapshotted, the root re-pointed and the config materialized.
C18_PhaseOrder ==
    /\ \A i, j \in 1..Len(trace) : i < j => PhaseOf(trace[i]) <= PhaseOf(trace[j])
    /\ \A c \in PhaseCalls :
          Cardinality({i \in 1..Len(trace) : trace[i] = c}) <= 1
    /\ \A i \in 1..Len(trace) :
          \A q \in MandatoryBefore(PhaseOf(trace[i])) :
              \E j \in 1..(i - 1) : PhaseOf(trace[j]) = q
    /\ (\E i \in 1..Len(trace) : trace[i] = "perform_experiments") =>
          /\ PROMPT_DIR = SnapshotRoot
          /\ \E i, j \in 1..Len(trace) :
                /\ trace[i] = "copytree(prompt)"
                /\ trace[j] = "edit_bfts_config_file"
                /\ i < j

\* C18 witness: a run that adapted its templates, made two writeup attempts
\* and reviewed the paper has come to the process cleanup.
C18_Witness ==
    /\ pc = "terminate_children"
    /\ detected.adapt
    /\ AttemptsMade = 2
    /\ {PhaseOf(trace[i]) : i \in 1..Len(trace)} = 1..10

----------------------------------------------------------------------------
(* Properties of the first pass of the process cleanup.                    *)

\* The enumerated children, and those the bounded wait reported gone: they
\* exited on the termination signal or before it.
Enumerated == {children[i] : i \in 1..Len(children)}
ExitedVoluntarily == Enumerated \ alive

\* The kill calls of the first pass.
KillsOfPassOne == {i \in 1..Len(sweep) : sweep[i].pass = 1 /\ sweep[i].call = "kill"}

\* C21: in the first pass of the cleanup, when a process is force-killed
\* every enumerated child has been sent the termination signal before, and
\* none is sent it afterwards; a kill goes only to an enumerated child the
\* bounded wait reported alive, never to one that exited voluntarily, and to
\* none twice; and the pass ends only when a kill has been made on every
\* child reported alive, which kills each of them that is still there and
\* may be signalled.
C21_PassOneOrder ==
    /\ [](\A i \in KillsOfPassOne :
            /\ PidsOf(SelectSeq(SubSeq(sweep, 1, i - 1),
                                LAMBDA c : c.call = "send_signal(SIGTERM)")) = children
            /\ \A j \in i..Len(sweep) : sweep[j].call = "kill"
            /\ sweep[i].pid \in alive
            /\ sweep[i].pid \in Enumerated
            /\ sweep[i].pid \notin ExitedVoluntarily
            /\ \A j \in KillsOfPassOne : sweep[j].pid = sweep[i].pid => j = i)
    /\ [][(pc = "kill_alive" /\ pc' # "kill_alive") =>
             /\ pc' = "sweep"
             /\ \A p \in alive :
                   \E i \in KillsOfPassOne :
                       /\ sweep[i].pid = p
                       /\ sweep[i].result \in {"ok", "NoSuchProcess", "AccessDenied"}]_vars

\* C21 witness: of two children signalled, the first exited within the wait
\* and the second did not; the second was killed and the first was not, and
\* the kill loop is over.
C21_Witness ==
    /\ pc = "kill_alive"
    /\ children = <<1, 2>>
    /\ alive = {2}
    /\ sweep = <<Call(1, 1, "send_signal(SIGTERM)", "ok"),
                 Call(1, 2, "send_signal(SIGTERM)", "ok"),
                 Call(1, 2, "kill", "ok")>>
    /\ NotYetKilled = {}

----------------------------------------------------------------------------
(* The template store called from several threads. A call is a sequence of *)
(* steps, each atomic under the interpreter lock; the steps of calls in    *)
(* different threads interleave.                                           *)

\* The contents a read returns as they were written, so that a difference
\* between what was written and what is loaded is never one of newlines.
PlainContents == {c \in Contents : read_text(write_text(c)) = c}

\* The threads inside write_prompt.
Writing == {t \in Threads : threads[t].kind = "write" /\ threads[t].at # "returned"}

\* A thread may start a call when it is in none.
MayCall(t) == threads[t].at \in {"idle", "returned"}

threadFrame == <<PROMPT_DIR, op, ret, seen, detectVars, pdfVars, driverVars,
                 prepVars, reaperVars>>

\* load_prompt(name) is called: the call starts in the lru_cache wrapper.
StartLoad(t, name) ==
    /\ MayCall(t)
    /\ threads' = [threads EXCEPT ![t] =
          [Idle EXCEPT !.kind = "load", !.name = name, !.at = "lookup",
                       !.after = settled]]
    /\ UNCHANGED <<fs, cache, settled, threadFrame>>

\* The wrapper looks the key up: a hit returns the cached text; on a miss
\* the wrapped function is called, which resolves the path first.
LookupCache(t) ==
    /\ threads[t].kind = "load" /\ threads[t].at = "lookup"
    /\ threads' = [threads EXCEPT ![t] =
          IF threads[t].name \in DOMAIN cache
          THEN [@ EXCEPT !.result = Text(cache[threads[t].name]), !.at = "returned"]
          ELSE [@ EXCEPT !.path = _resolve_prompt_path(threads[t].name, NoDir),
                         !.at = "exists"]]
    /\ UNCHANGED <<fs, cache, settled, threadFrame>>

\* if not prompt_path.exists(): raise PromptNotFoundError; the wrapper stores
\* nothing for a call that raises.
CheckExists(t) ==
    /\ threads[t].kind = "load" /\ threads[t].at = "exists"
    /\ threads' = [threads EXCEPT ![t] =
          IF exists(threads[t].path)
          THEN [@ EXCEPT !.at = "read"]
          ELSE [@ EXCEPT !.result = PromptNotFoundError, !.at = "returned"]]
    /\ UNCHANGED <<fs, cache, settled, threadFrame>>

\* return prompt_path.read_text(encoding="utf-8"): the file as it is then.
ReadText(t) ==
    /\ threads[t].kind = "load" /\ threads[t].at = "read"
    /\ threads' = [threads EXCEPT ![t] =
          [@ EXCEPT !.result = Text(read_text(fs[threads[t].path])), !.at = "store"]]
    /\ UNCHANGED <<fs, cache, settled, threadFrame>>

\* The wrapper stores the function's result under the key, in the cache as
\* it is then, and returns it.
cache_after_miss(t) ==
    [n \in DOMAIN cache \cup {threads[t].name} |->
        IF n = threads[t].name THEN threads[t].result.text ELSE cache[n]]

StoreResult(t) ==
    /\ threads[t].kind = "load" /\ threads[t].at = "store"
    /\ cache' = cache_after_miss(t)
    /\ threads' = [threads EXCEPT ![t] = [@ EXCEPT !.at = "returned"]]
    /\ UNCHANGED <<fs, settled, threadFrame>>

\* write_prompt(name, content) is called: the path is resolved and its
\* parent made. A write under way unsettles the one that returned before,
\* and a write is alone when no other write is under way during it.
StartWrite(t, name, content) ==
    /\ MayCall(t)
    /\ threads' = [u \in Threads |->
          IF u = t
          THEN [Idle EXCEPT !.kind = "write", !.name = name, !.content = content,
                            !.path = _resolve_prompt_path(name, NoDir), !.at = "open",
                            !.alone = (Writing = {})]
          ELSE [threads[u] EXCEPT !.after = Unsettled, !.alone = FALSE]]
    /\ settled' = Unsettled
    /\ UNCHANGED <<fs, cache, threadFrame>>

\* write_text opens the file with mode "w": it is created or truncated.
OpenForWrite(t) ==
    /\ threads[t].kind = "write" /\ threads[t].at = "open"
    /\ fs' = [p \in DOMAIN fs \cup {threads[t].path} |->
                 IF p = threads[t].path THEN <<>> ELSE fs[p]]
    /\ threads' = [threads EXCEPT ![t] = [@ EXCEPT !.at = "write"]]
    /\ UNCHANGED <<cache, settled, threadFrame>>

\* The data is written from the start of the file and the file closed; what
\* another writer put beyond the end of this data stays.
WriteData(t) ==
    /\ threads[t].kind = "write" /\ threads[t].at = "write"
    /\ LET data == write_text(threads[t].content)
           old  == fs[threads[t].path]
       IN  fs' = [fs EXCEPT ![threads[t].path] =
                     data \o SubSeq(old, Len(data) + 1, Len(old))]
    /\ threads' = [threads EXCEPT ![t] = [@ EXCEPT !.at = "clear"]]
    /\ UNCHANGED <<cache, settled, threadFrame>>

\* load_prompt.cache_clear(), and write_prompt returns. The write is settled
\* when no other write was under way during it; it is clean when no load
\* was between its read and its store while the cache was cleared.
ClearCache(t) ==
    /\ threads[t].kind = "write" /\ threads[t].at = "clear"
    /\ cache' = [n \in {} |-> <<>>]
    /\ threads' = [threads EXCEPT ![t] = [@ EXCEPT !.at = "returned"]]
    /\ settled' = IF threads[t].alone
                  THEN [ok |-> TRUE, name |-> threads[t].name,
                        text |-> threads[t].content,
                        clean |-> \A u \in Threads : threads[u].at # "store"]
                  ELSE Unsettled
    /\ UNCHANGED <<fs, threadFrame>>

\* After import, the one template file shipped or not, nothing cached, no
\* thread in a call.
ConcurrentInit ==
    /\ PROMPT_DIR = CanonicalRoot
    /\ \E present \in SUBSET {_resolve_prompt_path(NameA, NoDir)} :
           fs \in [present -> PlainContents]
    /\ cache = [n \in {} |-> <<>>]
    /\ op = NoOp
    /\ ret = NoResult
    /\ seen = NoneSeen
    /\ ThreadsIdle
    /\ DetectIdle
    /\ PdfIdle
    /\ DriverIdle
    /\ PrepIdle
    /\ ReaperIdle

ConcurrentNext ==
    \E t \in Threads :
        \/ \E name \in Names : StartLoad(t, name)
        \/ LookupCache(t)
        \/ CheckExists(t)
        \/ ReadText(t)
        \/ StoreResult(t)
        \/ \E name \in Names, content \in PlainContents : StartWrite(t, name, content)
        \/ OpenForWrite(t)
        \/ WriteData(t)
        \/ ClearCache(t)

ConcurrentSpec == ConcurrentInit /\ [][ConcurrentNext]_vars

\* The loads that started after a write of the same name had returned, no
\* write having started since, and that have returned.
LoadsAfterSettledWrite ==
    {t \in Threads : /\ threads[t].kind = "load"
                     /\ threads[t].at = "returned"
                     /\ threads[t].after.ok
                     /\ threads[t].after.name = threads[t].name}

\* C22 (as stated): once write(name, C) has returned, a load(name) that
\* starts afterwards, no further write under way or started, returns C,
\* whatever other loads were in progress while the write ran.
C22_NoStaleLoadAfterWrite ==
    \A t \in LoadsAfterSettledWrite :
        threads[t].result = Text(threads[t].after.text)

\* What holds on the code: such a load returns C when no other load was
\* between reading the file and storing its result while the write cleared
\* the cache.
FreshUnlessLoadOvertaken ==
    \A t \in LoadsAfterSettledWrite :
        threads[t].after.clean => threads[t].result = Text(threads[t].after.text)

----------------------------------------------------------------------------
(* Properties of the re-pointing of the template root.                     *)

\* The root has been re-pointed.
Repointed == \E i \in 1..Len(trace) : trace[i] = "reload_modules"

\* C23: once the driver has re-pointed the template root, a load of any name
\* returns what the snapshot file of that name holds (or fails when the
\* snapshot has no such file), whether the templates were adapted or not:
\* this holds for the load that returned last and for any load made in the
\* state reached; and the re-pointing leaves the root at the snapshot
\* directory with nothing cached, so that nothing cached from the canonical
\* root before it, the language decider included, is returned afterwards.
C23_LoadsFromSnapshot ==
    /\ [](Repointed =>
            /\ PROMPT_DIR = SnapshotRoot
            /\ \A name \in ClientNames :
                  load_prompt(name) = read_prompt(name, SnapshotRoot)
            /\ \A name \in DOMAIN cache :
                  Text(cache[name]) = read_prompt(name, SnapshotRoot)
            /\ (op.kind = "load" /\ op.name \in ClientNames) =>
                  ret = read_prompt(op.name, SnapshotRoot))
    /\ [][(pc = "repoint" /\ pc' # "repoint") =>
             /\ PROMPT_DIR' = SnapshotRoot
             /\ cache' = [n \in {} |-> <<>>]]_vars

\* C23 witness: the decider was loaded from the canonical root during the
\* detection, the templates were adapted, and after the re-pointing a load
\* of the adapted template returned the rewritten text of the snapshot,
\* which is not what the canonical file holds, with the decider loaded again
\* and cached from the snapshot.
C23_Witness ==
    /\ Repointed
    /\ detected.adapt
    /\ classifier.calls = 1
    /\ op.kind = "load"
    /\ op.name = parallel_dir \o <<"/", "a">>
    /\ ret.ok
    /\ ret = read_prompt(op.name, SnapshotRoot)
    /\ ret # read_prompt(op.name, CanonicalRoot)
    /\ LANGUAGE_DECIDER \in DOMAIN cache

====
